---- MODULE Spec2Model ----
(***************************************************************************)
(* Open Viper Loader: the host program (viper_loader.c, arduino_serial.c)  *)
(* and the bridge firmware (viper_arduino_bridge.ino).                     *)
(*                                                                         *)
(* Eight specifications share the module's variables:                      *)
(*   SpecPentad    one call of the host's outp(), sample by sample;        *)
(*   SpecOutp      one call of outp(), of the host or of the firmware;     *)
(*   SpecHdr       the 3-byte stream header, host to firmware, for every   *)
(*                 length up to BIOS_SIZE;                                 *)
(*   SpecStream    the host's stream functions, the serial link and the    *)
(*                 firmware's main loop;                                   *)
(*   SpecCmd       the single-byte commands of the host and their          *)
(*                 dispatch by the firmware's loop();                      *)
(*   SpecHost      main() and the read / write / compare passes, one chip  *)
(*                 command per step;                                       *)
(*   SpecWriteByte one call of write_byte(), host and firmware, on the     *)
(*                 same arguments;                                         *)
(*   SpecReadByte  one byte read, host and firmware, on the same samples.  *)
(* A specification leaves the variables of the others unchanged.           *)
(***************************************************************************)
EXTENDS Integers, Sequences, FiniteSets, TLC

VARIABLES
    \* g_cfg
    safe_mode,      \* g_cfg.safe_mode
    serial,         \* use_serial(): g_cfg.serial != -1
    \* one call of the host's outp()
    op_data,        \* the argument `data`
    pc_outp,        \* "write1", "check", "write2", "ret"; "fw_..." in the firmware's outp()
    high,           \* the argument of the running safe_mode_check()
    tries,          \* its loop counter
    inb_log,        \* the values _inb() returned in the running / last check
    sleeps,         \* the arguments of usleep() in the running / last check
    port_log,       \* the values given to _outb(), in order
    outp_ret,       \* what outp() returned (-1: nothing yet)
    \* the stream functions of the host (arduino_serial.c)
    image,          \* which image the file (write) or the chip (read) holds
    h_op,           \* "read": serial_read_byte_stream, "write": serial_write_byte_stream
    h_n,            \* max / data_sz
    h_pc,           \* "send_hdr", "read_wait", "send_chunk", "wait_ack", "done"
    h_i,            \* the loop index i (uint32_t, see ULess)
    h_buf,          \* bios_buffer: h_buf[k+1] is bios_buffer[k], -1 where never stored
    h_ret,          \* the function's return value (-1: still running)
    h_hdr,          \* the header written (<<>>: none)
    h_chunks,       \* the chunks written: [off, bytes]
    h_ack,          \* the acknowledgment bytes read, in order
    h_fail,         \* why the function returned 1
    \* the serial link
    to_fw,          \* bytes written by the host, not yet read by the firmware:
                    \* [v: the byte, kind: what the host sent it as]
    to_host,        \* bytes written by the firmware, not yet read by the host
    \* the firmware (viper_arduino_bridge.ino)
    f_pc,           \* "loop", "read_stream", "write_stream", "stall", "reset"
    f_total,        \* total, as read_size() returned it
    f_i,            \* b (read_byte_stream) or i (write_byte_stream)
    f_data,         \* read_byte_stream's data, kept from one byte to the next
    f_buf,          \* data_buffer
    f_port,         \* the 6 output lines (PORTD >> 2)
    f_cmds,         \* the bytes loop() dispatched: [byte, sent_as]
    f_acks,         \* the bytes write_byte_stream() sent back
    f_writes,       \* the calls of write_byte(): <<address, data>>
    f_aborted,      \* a stream function returned 1
    f_pass,         \* how many stream commands loop() has dispatched
    f_bad,          \* a pentad of the stream function dispatched last failed its handshake
    f_pins,         \* the levels inb() read last: <<PIN_SEL is HIGH, PIN_ERR is HIGH>>
    faulted,        \* an I/O call of the host or a pentad of the firmware has failed
    \* main() and the passes of the host (viper_loader.c)
    op,             \* g_cfg.operation: "read", "write", "compare"
    pc,             \* where main() is; "exit": it has returned, "killed": by a signal
    exit_code,      \* what main() returned (-1: nothing yet)
    file_size,      \* the size of the file at g_cfg.file_path
    loaded,         \* size / file_size: what load_bios_file() returned
    loop_i,         \* the loop index i of the running pass
    c1,             \* erase_chip()'s c1
    c2,             \* erase_chip()'s c2
    polls,          \* erase_chip(): whether read_byte() returned 0, for its last two calls
    erase_fault,    \* a pentad emitted by erase_chip() failed its handshake
    erase_done,     \* erase_chip() has returned
    last_cmd,       \* the chip command the last pentad emitted belongs to
    chip_ready,     \* the chip answered CMD_CHIP_INIT
    failed,         \* the steps of the pass that returned non-zero
    write_issued,   \* write_byte() or serial_write_byte_stream() has been called
    wb,             \* the last call of write_byte(): what it returned and did
    read_n,         \* read_bios(): the bytes of bios_buffer stored
    out_file,       \* read_bios() has written the file
    diff_at,        \* compare_bios(): the address of the difference reported (-1: none)
    bad_cmds,       \* how many chip commands, or polls of erase_chip(), had a failing pentad
    chip,           \* compare_bios(): the bytes the chip holds, up to the file's length
    arg,            \* the arguments of one call of write_byte() or read_byte()
    h_call,         \* what the host's function did with them (<<>>: not called)
    f_call          \* what the firmware's function did with them (<<>>: not called)

pentadVars == <<op_data, pc_outp, high, tries, inb_log, sleeps, port_log, outp_ret>>
cfgVars    == <<safe_mode, serial>>
hostStreamVars == <<image, h_op, h_n, h_pc, h_i, h_buf, h_ret, h_hdr, h_chunks,
                    h_ack, h_fail>>
linkVars   == <<to_fw, to_host>>
fwVars     == <<f_pc, f_total, f_i, f_data, f_buf, f_port, f_cmds, f_acks,
                f_writes, f_aborted, f_pass, f_bad, f_pins>>
streamVars == <<hostStreamVars, linkVars, fwVars, faulted>>
mainVars   == <<op, pc, exit_code, file_size, loaded, loop_i, c1, c2, polls, erase_fault,
                erase_done, last_cmd, chip_ready, failed, write_issued, wb,
                read_n, out_file, diff_at, bad_cmds, chip>>
callVars   == <<arg, h_call, f_call>>
restVars   == <<cfgVars, pentadVars, streamVars, callVars>>
vars       == <<cfgVars, pentadVars, streamVars, mainVars, callVars>>

(***************************************************************************)
(* Bounds of the model.                                                    *)
(***************************************************************************)
\* the longest stream write followed (two chunks: 60 + 1)
MaxWriteLen == 61
\* the longest stream read followed
MaxReadLen == 3
\* how many pentads of one chip command may fail
MaxFaults == 1
\* of what follows the host's one command, how many bytes loop() is followed
\* dispatching, and for how many bytes a pass begun by one of them is followed
MaxStray == 2
\* the longest of the short files followed
MaxFile == 2
\* the addresses a read pass of the host is followed over
MaxReadPass == 3
\* how many chip commands of one run of the host may have a failing pentad
MaxBadCmds == 2

(***************************************************************************)
(* C arithmetic.                                                           *)
(***************************************************************************)
RECURSIVE BitAnd(_, _)
BitAnd(a, b) ==
    IF a = 0 \/ b = 0 THEN 0
    ELSE (a % 2) * (b % 2) + 2 * BitAnd(a \div 2, b \div 2)

RECURSIVE BitOr(_, _)
BitOr(a, b) ==
    IF a = 0 THEN b
    ELSE IF b = 0 THEN a
    ELSE (IF a % 2 = 1 \/ b % 2 = 1 THEN 1 ELSE 0) + 2 * BitOr(a \div 2, b \div 2)

Shr(a, k) == a \div 2^k
Shl(a, k) == a * 2^k
U8(a)  == a % 256

\* A uint32_t is held as the 32-bit two's complement number with the same bits
\* (0xFFFFFFFF is -1): sums of small numbers are then exact, and a < b for
\* an unsigned a and a b below 2^31 is
ULess(a, b) == a >= 0 /\ a < b

Last(s) == s[Len(s)]

\* k bytes of zero
Zeros(k) == [j \in 1..k |-> 0]

\* the sets of at most k failing positions among 1..n
RECURSIVE FaultSetsUpTo(_, _)
FaultSetsUpTo(n, k) ==
    IF k = 0 THEN {{}}
    ELSE FaultSetsUpTo(n, k - 1)
         \cup {S \cup {i} : S \in FaultSetsUpTo(n, k - 1), i \in 1..n}

\* how n successive calls of outp() can go: the calls in F fail, in mode m
\* (see Outcome); with safe mode off none can fail
Faults(n, checked) ==
    {[F |-> {}, m |-> "high"]}
    \cup IF checked
           THEN {[F |-> S, m |-> md] : S \in FaultSetsUpTo(n, MaxFaults) \ {{}},
                                       md \in {"high", "low"}}
           ELSE {}

(***************************************************************************)
(* Program constants.                                                      *)
(***************************************************************************)
CMD_RESET      == 0
CMD_ERASE      == 3
CMD_WRITE_BYTE == 5
CMD_READ       == 13
CMD_READ_INIT  == <<17, 0, 0, 0, 0>>
CMD_CHIP_INIT  == <<255, 12, 18>>
MASK_CHIP_DATA == 16
MASK_CHIP_ERR  == 8
BIOS_SIZE      == 131072
MAX_TRIES      == 4
CHUNK          == 60
\* milliseconds
DataTimeout    == 1000
AckTimeout     == 5000
FwReadTimeout  == 2000
FwStall        == 10000
Forever        == FwStall + AckTimeout
\* EXIT_FAILURE, and the 100 of one_percent = size / 100
EXIT_FAILURE   == 1
PERCENT        == 100

(***************************************************************************)
(* The images: byte k of image p.                                          *)
(***************************************************************************)
Images == {"zero", "erased", "ramp"}

ImageByte(p, k) ==
    CASE p = "zero"   -> 0
      [] p = "erased" -> 255
      [] OTHER        -> (k * 67 + 5) % 256

(***************************************************************************)
(* outp() of the host, with safe_mode_check(), one _outb() or one loop     *)
(* iteration per step.                                                     *)
(***************************************************************************)
\* what _inb() can return: the status register, of which bits 4 (SELECT) and
\* 3 (ERROR) are wired; serial_inb() returns 1 when its write, wait or read fails
InbValues == {0, 8, 16, 24}
SERIAL_INB_ERR == 1
InbResults(ser) == IF ser THEN InbValues \cup {SERIAL_INB_ERR} ELSE InbValues

\* the four low bits alone
formatted_data_NoMarker(data) == BitAnd(data, 15)

\* formatted_data as outp() computes it, of the host and of the firmware alike
formatted_data(data) ==
    LET low == BitAnd(data, 15)
    IN  IF BitAnd(data, 16) # 0 THEN BitOr(low, 32) ELSE low

\* a linear backoff in place of the doubling one
usleep_arg_Linear(t) == (t + 1) * 125

\* the argument of usleep() after the failed try number `t`
usleep_arg(t) == Shl(1, t) * 125

\* the test of safe_mode_check(): the sample r = _inb() & MASK_CHIP_ERR is as expected
level_ok(hi, r) == (hi /\ r # 0) \/ (~hi /\ r = 0)

InitPentad ==
    /\ op_data \in 0..31 \cup {255}
    /\ pc_outp = "write1"
    /\ high = TRUE
    /\ tries = 0
    /\ inb_log = <<>>
    /\ sleeps = <<>>
    /\ port_log = <<>>
    /\ outp_ret = -1

\* outp() with the first check made whatever g_cfg.safe_mode is
OutpFirstWrite_AlwaysCheck ==
    /\ pc_outp = "write1"
    /\ port_log' = Append(port_log, formatted_data(op_data))
    /\ pc_outp' = "check"
    /\ high' = TRUE
    /\ tries' = 0
    /\ inb_log' = <<>>
    /\ sleeps' = <<>>
    /\ UNCHANGED <<op_data, outp_ret, cfgVars, callVars, mainVars, streamVars>>

\* outp() up to its first _outb(), and whether safe_mode_check(true) is called
OutpFirstWrite ==
    /\ pc_outp = "write1"
    /\ port_log' = Append(port_log, formatted_data(op_data))
    /\ IF safe_mode
         THEN /\ pc_outp' = "check"
              /\ high' = TRUE
              /\ tries' = 0
              /\ inb_log' = <<>>
              /\ sleeps' = <<>>
         ELSE /\ pc_outp' = "write2"
              /\ UNCHANGED <<high, tries, inb_log, sleeps>>
    /\ UNCHANGED <<op_data, outp_ret, cfgVars, callVars, mainVars, streamVars>>

\* one iteration of safe_mode_check()'s loop; the last one falls out of the loop
SafeModeTry ==
    /\ pc_outp = "check"
    /\ tries < MAX_TRIES
    /\ \E v \in InbResults(serial) :
         LET r == BitAnd(v, MASK_CHIP_ERR)
         IN  /\ inb_log' = Append(inb_log, v)
             /\ IF level_ok(high, r)
                  THEN /\ pc_outp' = IF high THEN "write2" ELSE "ret"
                       /\ outp_ret' = IF high THEN outp_ret ELSE 0
                       /\ UNCHANGED <<tries, sleeps>>
                  ELSE /\ sleeps' = Append(sleeps, usleep_arg(tries))
                       /\ tries' = tries + 1
                       /\ IF tries + 1 < MAX_TRIES
                            THEN UNCHANGED <<pc_outp, outp_ret>>
                            ELSE pc_outp' = "ret" /\ outp_ret' = 1
    /\ UNCHANGED <<op_data, high, port_log, cfgVars, callVars, mainVars, streamVars>>

OutpSecondWrite ==
    /\ pc_outp = "write2"
    /\ port_log' = Append(port_log, BitOr(formatted_data(op_data), 16))
    /\ IF safe_mode
         THEN /\ pc_outp' = "check"
              /\ high' = FALSE
              /\ tries' = 0
              /\ inb_log' = <<>>
              /\ sleeps' = <<>>
              /\ UNCHANGED outp_ret
         ELSE /\ pc_outp' = "ret"
              /\ outp_ret' = 0
              /\ UNCHANGED <<high, tries, inb_log, sleeps>>
    /\ UNCHANGED <<op_data, cfgVars, callVars, mainVars, streamVars>>

(***************************************************************************)
(* One call of the firmware's outp(), step by step: port_log holds the     *)
(* values given to outb(), inb_log the levels digitalRead(PIN_ERR) showed  *)
(* (1: HIGH, 0: LOW) and sleeps the arguments of delay().                  *)
(***************************************************************************)
\* digitalRead(PIN_ERR) != LOW when HIGH is waited for, != HIGH when LOW is
fw_level_ok(hi, lvl) == (hi /\ lvl # 0) \/ (~hi /\ lvl # 1)

FwOutpFirstWrite ==
    /\ pc_outp = "fw_write1"
    /\ port_log' = Append(port_log, formatted_data(op_data))
    /\ pc_outp' = "fw_check"
    /\ high' = TRUE
    /\ tries' = 0
    /\ inb_log' = <<>>
    /\ sleeps' = <<>>
    /\ UNCHANGED <<op_data, outp_ret, cfgVars, callVars, mainVars, streamVars>>

\* one iteration of the firmware's safe_mode_check()
FwSafeModeTry ==
    /\ pc_outp = "fw_check"
    /\ tries < MAX_TRIES
    /\ \E lvl \in {0, 1} :
         /\ inb_log' = Append(inb_log, lvl)
         /\ IF fw_level_ok(high, lvl)
              THEN /\ pc_outp' = IF high THEN "fw_write2" ELSE "fw_ret"
                   /\ outp_ret' = IF high THEN outp_ret ELSE 0
                   /\ UNCHANGED <<tries, sleeps>>
              ELSE /\ sleeps' = Append(sleeps, 1)
                   /\ tries' = tries + 1
                   /\ IF tries + 1 < MAX_TRIES
                        THEN UNCHANGED <<pc_outp, outp_ret>>
                        ELSE pc_outp' = "fw_ret" /\ outp_ret' = 1
    /\ UNCHANGED <<op_data, high, port_log, cfgVars, callVars, mainVars, streamVars>>

FwOutpSecondWrite ==
    /\ pc_outp = "fw_write2"
    /\ port_log' = Append(port_log, BitOr(formatted_data(op_data), 16))
    /\ pc_outp' = "fw_check"
    /\ high' = FALSE
    /\ tries' = 0
    /\ inb_log' = <<>>
    /\ sleeps' = <<>>
    /\ UNCHANGED <<op_data, outp_ret, cfgVars, callVars, mainVars, streamVars>>

(***************************************************************************)
(* One call of outp(): `o` says how the acknowledgment line behaved:       *)
(* "ok", "high" (the wait for HIGH ran out of tries) or "low" (the wait    *)
(* for LOW did).                                                           *)
(***************************************************************************)
Outcomes == {"ok", "high", "low"}

\* the outcome of call number k when the calls in F fail in mode m
Outcome(F, m, k) == IF k \in F THEN m ELSE "ok"

Bit(x, i) == Shr(x, i) % 2

\* the status bit without its level
inb_NoLevel(sel, err) == IF err THEN 8 ELSE 0

\* the firmware's inb(): the byte it sends for the levels of PIN_SEL and PIN_ERR
inb(sel, err) ==
    BitOr(IF sel THEN 16 ELSE 0, IF err THEN 8 ELSE 0)

\* the firmware's outp(): its return value
fw_outp(o) == IF o = "ok" THEN 0 ELSE 1

\* the firmware's outp(): the values it puts on the output lines
fw_outp_lines(data, o) ==
    LET fd == formatted_data(data)
    IN  IF o = "high" THEN <<fd>> ELSE <<fd, BitOr(fd, 16)>>

(***************************************************************************)
(* write_byte() of the firmware: O[k] is the outcome of its k-th outp().   *)
(* ret is the return value, n the number of calls of outp() made.          *)
(***************************************************************************)
\* the arguments of the nine calls of outp()
fw_write_args(address, data) ==
    << CMD_WRITE_BYTE,
       U8(BitOr(BitAnd(Shr(data, 3), 28), Shr(address, 15))),
       U8(Shr(address, 10)),
       U8(Shr(address, 5)),
       U8(address),
       data, data, data, data >>

\* write_byte() with the return values of all nine calls tested
fw_write_byte_AllTested(address, data, O) ==
    IF data = 255 THEN [ret |-> 0, n |-> 0]
    ELSE
      LET bad == {k \in 1..9 : fw_outp(O[k]) # 0}
      IN  IF bad = {} THEN [ret |-> 0, n |-> 9]
          ELSE [ret |-> 1, n |-> CHOOSE k \in bad : \A j \in bad : k <= j]

\* the return values of the first five calls are tested, those of the last
\* four are not
fw_write_byte(address, data, O) ==
    IF data = 255 THEN [ret |-> 0, n |-> 0]
    ELSE
      LET bad == {k \in 1..5 : fw_outp(O[k]) # 0}
      IN  IF bad = {} THEN [ret |-> 0, n |-> 9]
          ELSE [ret |-> 1, n |-> CHOOSE k \in bad : \A j \in bad : k <= j]

\* the values the first n of the calls with arguments args put on the lines
RECURSIVE fw_lines(_, _, _, _)
fw_lines(args, O, k, n) ==
    IF k > n THEN <<>>
    ELSE fw_outp_lines(args[k], O[k]) \o fw_lines(args, O, k + 1, n)

\* some of the first n calls failed
SomeFailed(O, n) == \E k \in 1..n : O[k] # "ok"

(***************************************************************************)
(* One byte of read_byte_stream(): `data` is the variable as the previous  *)
(* byte left it, bits[i+1] the level of PIN_SEL at bit i.                  *)
(***************************************************************************)
fw_read_args == <<CMD_READ, 0, 1, 2, 3, 4, 5, 6, 7>>

RECURSIVE fw_read_bits(_, _, _, _)
fw_read_bits(data, bits, i, O) ==
    IF i = 8 THEN [ret |-> 0, data |-> data, n |-> 9]
    ELSE
      LET d1 == Shr(data, 1)
          d2 == IF bits[i + 1] = 1 THEN BitOr(d1, 128) ELSE d1
      IN  IF fw_outp(O[i + 2]) # 0
            THEN [ret |-> 1, data |-> d2, n |-> i + 2]
            ELSE fw_read_bits(d2, bits, i + 1, O)

fw_read_byte(data, bits, O) ==
    IF fw_outp(O[1]) # 0
      THEN [ret |-> 1, data |-> data, n |-> 1]
      ELSE fw_read_bits(data, bits, 0, O)

\* the levels the chip puts on SELECT while byte b is read, least significant first
SampleBits(b) == [i \in 1..8 |-> Bit(b, i - 1)]

(***************************************************************************)
(* The stream header.                                                      *)
(***************************************************************************)
\* read_cmd[] of serial_read_byte_stream()
read_cmd(max) ==
    << U8(BitOr(128, Shr(max, 16))), BitAnd(Shr(max, 8), 255), BitAnd(max, 255) >>

\* write_cmd[] of serial_write_byte_stream()
write_cmd(data_sz) ==
    << U8(BitOr(192, Shr(data_sz, 16))), BitAnd(Shr(data_sz, 8), 255),
       BitAnd(data_sz, 255) >>

\* read_size() keeping one bit of the first byte only
read_size_OneBit(first, size) ==
    BitOr(BitOr(Shl(BitAnd(first, 1), 16), Shl(size[1], 8)), size[2])

\* read_size() of the firmware: size[] holds the two bytes Serial.readBytes() gave
read_size(first, size) ==
    BitOr(BitOr(Shl(BitAnd(first, 63), 16), Shl(size[1], 8)), size[2])

\* the switch of loop()
cmd_tag(d) == BitAnd(d, 192)

(***************************************************************************)
(* Time. The host waits with select() for DataTimeout (a data byte) or     *)
(* AckTimeout (an acknowledgment); Serial.readBytes() gives up after       *)
(* FwReadTimeout; a failed pass stalls the firmware for FwStall. Everything*)
(* else takes far less than any of these, so a wait runs out exactly when  *)
(* the other side stays silent for longer than the wait.                   *)
(***************************************************************************)
\* the firmware is inside Serial.readBytes() and the bytes are not there
FwStarved ==
    \/ /\ f_pc = "loop"
       /\ to_fw # <<>>
       /\ cmd_tag(Head(to_fw).v) \in {128, 192}
       /\ Len(to_fw) < 3
    \/ /\ f_pc = "write_stream"
       /\ f_i < f_total
       /\ f_i % CHUNK = 0
       /\ Len(to_fw) < CHUNK

\* for how long the host sends nothing
HostSilence ==
    CASE h_pc = "done" -> Forever
      [] h_pc = "wait_ack"  /\ to_host = <<>> -> AckTimeout
      [] h_pc = "read_wait" /\ to_host = <<>> -> DataTimeout
      [] OTHER -> 0

\* for how long the firmware sends nothing
FwSilence ==
    CASE f_pc = "stall" -> FwStall
      [] f_pc = "loop" /\ to_fw = <<>> -> Forever
      [] FwStarved -> FwReadTimeout
      [] OTHER -> 0

(***************************************************************************)
(* The host's stream functions.                                            *)
(***************************************************************************)
Bytes(vs, kind) == [j \in 1..Len(vs) |-> [v |-> vs[j], kind |-> kind]]

\* the bytes one place further on
DataBytes_Shifted(i, n) == [j \in 1..n |-> ImageByte(image, i + j)]

\* data[i] .. data[i + n - 1] of the image being written
DataBytes(i, n) == [j \in 1..n |-> ImageByte(image, i + j - 1)]

\* all that is left in one write
write_sz_All(left) == left

\* write_sz of serial_write_byte_stream()
write_sz(left) == IF left < CHUNK THEN left ELSE CHUNK

\* a padding one byte short
padding_Short(left) == IF left < CHUNK THEN Zeros(CHUNK - left - 1) ELSE <<>>

\* the padding after a chunk of `left` bytes
padding(left) == IF left < CHUNK THEN Zeros(CHUNK - left) ELSE <<>>

\* an acknowledgment test that takes any byte
ack_ok_AnyByte(r, ack) == r = 1

\* the test of the acknowledgment: r is read()'s result
ack_ok(r, ack) == r = 1 /\ ack = 60

HostReturn(ret, why) ==
    /\ h_pc' = "done"
    /\ h_ret' = ret
    /\ h_fail' = why

\* the header is written: lines 140-146 and 167-174
HostSendHeader ==
    /\ h_pc = "send_hdr"
    /\ \E wok \in BOOLEAN :
         IF ~wok
           THEN /\ HostReturn(1, "write")
                /\ faulted' = TRUE
                /\ UNCHANGED <<h_hdr, to_fw>>
           ELSE LET hdr == IF h_op = "read" THEN read_cmd(h_n) ELSE write_cmd(h_n)
                IN  /\ h_hdr' = hdr
                    /\ to_fw' = to_fw \o <<[v |-> hdr[1], kind |-> "cmd"],
                                           [v |-> hdr[2], kind |-> "size"],
                                           [v |-> hdr[3], kind |-> "size"]>>
                    /\ IF h_n > 0
                         THEN /\ h_pc' = IF h_op = "read" THEN "read_wait" ELSE "send_chunk"
                              /\ UNCHANGED <<h_ret, h_fail>>
                         ELSE HostReturn(0, "none")
                    /\ UNCHANGED faulted
    /\ UNCHANGED <<image, h_op, h_n, h_i, h_buf, h_chunks, h_ack, to_host,
                   fwVars, cfgVars, callVars, mainVars, pentadVars>>

\* one iteration of serial_read_byte_stream()'s loop with data ready: read()
\* gives r bytes, or -1
HostReadData ==
    /\ h_pc = "read_wait"
    /\ to_host # <<>>
    /\ LET most == IF Len(to_host) < h_n - h_i THEN Len(to_host) ELSE h_n - h_i
       IN  \E r \in {-1} \cup 1..most :
             LET i2 == h_i + r
             IN  /\ h_i' = i2
                 /\ IF r = -1
                      THEN UNCHANGED <<h_buf, to_host>> /\ faulted' = TRUE
                      ELSE /\ h_buf' = [k \in DOMAIN h_buf \cup (h_i .. h_i + r - 1) |->
                                          IF k \in h_i .. h_i + r - 1
                                            THEN to_host[k - h_i + 1] ELSE h_buf[k]]
                           /\ to_host' = SubSeq(to_host, r + 1, Len(to_host))
                           /\ UNCHANGED faulted
                 /\ IF ULess(i2, h_n)
                      THEN UNCHANGED <<h_pc, h_ret, h_fail>>
                      ELSE HostReturn(0, "none")
    /\ UNCHANGED <<image, h_op, h_n, h_hdr, h_chunks, h_ack, to_fw,
                   fwVars, cfgVars, callVars, mainVars, pentadVars>>

\* serial_wait_data() returns -2
HostReadTimeout ==
    /\ h_pc = "read_wait"
    /\ to_host = <<>>
    /\ FwSilence > DataTimeout
    /\ HostReturn(1, "timeout")
    /\ UNCHANGED <<image, h_op, h_n, h_i, h_buf, h_hdr, h_chunks, h_ack,
                   linkVars, fwVars, faulted, cfgVars, callVars, mainVars, pentadVars>>

\* lines 177-189: the chunk at i and its padding are written
HostSendChunk ==
    /\ h_pc = "send_chunk"
    /\ LET left == h_n - h_i
           sz   == write_sz(left)
       IN  \E wok \in BOOLEAN, pok \in BOOLEAN :
             IF ~wok
               THEN /\ HostReturn(1, "write")
                    /\ faulted' = TRUE
                    /\ UNCHANGED <<h_chunks, to_fw>>
               ELSE LET pad == IF pok THEN padding(left) ELSE <<>>
                    IN  /\ to_fw' = to_fw \o Bytes(DataBytes(h_i, sz), "data")
                                          \o Bytes(pad, "pad")
                        /\ h_chunks' = Append(h_chunks,
                                [off |-> h_i, bytes |-> DataBytes(h_i, sz) \o pad])
                        /\ h_pc' = "wait_ack"
                        /\ faulted' = (faulted \/ (~pok /\ left < CHUNK))
                        /\ UNCHANGED <<h_ret, h_fail>>
    /\ UNCHANGED <<image, h_op, h_n, h_i, h_buf, h_hdr, h_ack, to_host,
                   fwVars, cfgVars, callVars, mainVars, pentadVars>>

\* lines 191-200: data is ready, one byte is read and tested
HostReadAck ==
    /\ h_pc = "wait_ack"
    /\ to_host # <<>>
    /\ \E rok \in BOOLEAN :
         LET r   == IF rok THEN 1 ELSE 0
             ack == IF rok THEN Head(to_host) ELSE 105
         IN  /\ to_host' = IF rok THEN Tail(to_host) ELSE to_host
             /\ h_ack' = Append(h_ack, [r |-> r, ack |-> ack])
             /\ faulted' = (faulted \/ ~rok)
             /\ IF ~ack_ok(r, ack)
                  THEN /\ HostReturn(1, "ack")
                       /\ UNCHANGED h_i
                  ELSE /\ h_i' = h_i + CHUNK
                       /\ IF h_i + CHUNK < h_n
                            THEN h_pc' = "send_chunk" /\ UNCHANGED <<h_ret, h_fail>>
                            ELSE HostReturn(0, "none")
    /\ UNCHANGED <<image, h_op, h_n, h_buf, h_hdr, h_chunks, to_fw,
                   fwVars, cfgVars, callVars, mainVars, pentadVars>>

\* serial_wait_data(&timeout) returns -2
HostAckTimeout ==
    /\ h_pc = "wait_ack"
    /\ to_host = <<>>
    /\ FwSilence > AckTimeout
    /\ HostReturn(1, "timeout")
    /\ UNCHANGED <<image, h_op, h_n, h_i, h_buf, h_hdr, h_chunks, h_ack,
                   linkVars, fwVars, faulted, cfgVars, callVars, mainVars, pentadVars>>

(***************************************************************************)
(* The firmware.                                                           *)
(***************************************************************************)
Min(a, b) == IF a < b THEN a ELSE b

FwAbort ==
    /\ f_pc' = "stall"
    /\ f_aborted' = TRUE

\* loop(): one command byte is read and dispatched; a stream command also
\* runs read_size(), which takes the next two bytes or, after FwReadTimeout,
\* what is there
FwLoop ==
    /\ f_pc = "loop"
    /\ to_fw # <<>>
    /\ Len(f_cmds) <= MaxStray
    /\ \/ cmd_tag(Head(to_fw).v) \in {0, 64}
       \/ Len(to_fw) >= 3
       \/ HostSilence > FwReadTimeout
    /\ LET d    == Head(to_fw).v
           rest == Tail(to_fw)
           got  == Min(2, Len(rest))
           size == [j \in 1..2 |-> IF j <= got THEN rest[j].v ELSE 0]
       IN  /\ f_cmds' = Append(f_cmds, [byte |-> d, kind |-> Head(to_fw).kind])
           /\ f_bad' = (f_bad /\ cmd_tag(d) \in {0, 64})
           /\ CASE cmd_tag(d) = 0 ->
                     \* outb(d): PORTD = (d << 2) | (PORTD & 0x3)
                     /\ f_port' = Shr(U8(Shl(d, 2)), 2)
                     /\ to_fw' = rest
                     /\ UNCHANGED <<to_host, f_pc, f_total, f_i, f_data, f_pass, f_pins>>
                [] cmd_tag(d) = 64 ->
                     \* inb(): the levels of PIN_SEL and PIN_ERR are sent back
                     /\ \E sel \in BOOLEAN, err \in BOOLEAN :
                          /\ f_pins' = <<sel, err>>
                          /\ to_host' = Append(to_host, inb(sel, err))
                     /\ to_fw' = rest
                     /\ UNCHANGED <<f_port, f_pc, f_total, f_i, f_data, f_pass>>
                [] OTHER ->
                     /\ f_pc' = IF cmd_tag(d) = 128 THEN "read_stream" ELSE "write_stream"
                     /\ f_total' = read_size(d, size)
                     /\ f_i' = 0
                     /\ f_data' = 0
                     /\ f_pass' = f_pass + 1
                     /\ to_fw' = SubSeq(rest, got + 1, Len(rest))
                     /\ UNCHANGED <<to_host, f_port, f_pins>>
    /\ UNCHANGED <<f_buf, f_acks, f_writes, f_aborted, faulted, hostStreamVars,
                   cfgVars, callVars, mainVars, pentadVars>>

\* one iteration of read_byte_stream()'s loop
FwReadStreamByte ==
    /\ f_pc = "read_stream"
    /\ f_i < f_total
    /\ f_pass = 1 \/ f_i < MaxStray
    /\ \E f \in Faults(9, TRUE) :
         LET O == [k \in 1..9 |-> Outcome(f.F, f.m, k)]
             r == fw_read_byte(f_data, SampleBits(ImageByte(image, f_i)), O)
         IN  /\ f_port' = Last(fw_outp_lines(fw_read_args[r.n], O[r.n]))
             /\ f_data' = r.data
             /\ faulted' = (faulted \/ SomeFailed(O, r.n))
             /\ f_bad' = (f_bad \/ SomeFailed(O, r.n))
             /\ IF r.ret # 0
                  THEN /\ FwAbort
                       /\ UNCHANGED <<to_host, f_i>>
                  ELSE /\ to_host' = Append(to_host, r.data)
                       /\ f_i' = f_i + 1
                       /\ UNCHANGED <<f_pc, f_aborted>>
    /\ UNCHANGED <<to_fw, f_total, f_buf, f_cmds, f_acks, f_writes, f_pass, f_pins,
                   hostStreamVars, cfgVars, callVars, mainVars, pentadVars>>

\* one iteration of write_byte_stream()'s loop: the refill when i % 60 == 0,
\* then write_byte()
FwWriteStreamByte ==
    /\ f_pc = "write_stream"
    /\ f_i < f_total
    /\ \/ f_i % CHUNK # 0
       \/ Len(to_fw) >= CHUNK
       \/ HostSilence > FwReadTimeout
    /\ f_pass = 1 \/ f_i < MaxStray
    /\ \E f \in Faults(9, TRUE) :
         LET refill == f_i % CHUNK = 0
             r   == IF refill THEN Min(CHUNK, Len(to_fw)) ELSE CHUNK
             buf == IF refill
                      THEN [j \in 1..CHUNK |-> IF j <= r THEN to_fw[j].v ELSE f_buf[j]]
                      ELSE f_buf
             O   == [k \in 1..9 |-> Outcome(f.F, f.m, k)]
             w   == fw_write_byte(f_i, buf[(f_i % CHUNK) + 1], O)
         IN  /\ f_buf' = buf
             /\ IF refill
                  THEN /\ to_fw' = SubSeq(to_fw, r + 1, Len(to_fw))
                       /\ to_host' = Append(to_host, r)
                       /\ f_acks' = Append(f_acks, r)
                  ELSE UNCHANGED <<to_fw, to_host, f_acks>>
             /\ IF r < CHUNK
                  THEN /\ FwAbort
                       /\ UNCHANGED <<f_i, f_writes, f_port, faulted, f_bad>>
                  ELSE /\ f_writes' = Append(f_writes, <<f_i, buf[(f_i % CHUNK) + 1]>>)
                       /\ f_port' = IF w.n = 0 THEN f_port
                                     ELSE Last(fw_outp_lines(
                                            fw_write_args(f_i, buf[(f_i % CHUNK) + 1])[w.n],
                                            O[w.n]))
                       /\ faulted' = (faulted \/ SomeFailed(O, w.n))
                       /\ f_bad' = (f_bad \/ SomeFailed(O, w.n))
                       /\ IF w.ret # 0
                            THEN FwAbort /\ UNCHANGED f_i
                            ELSE f_i' = f_i + 1 /\ UNCHANGED <<f_pc, f_aborted>>
    /\ UNCHANGED <<f_total, f_data, f_cmds, f_pass, f_pins, hostStreamVars, cfgVars, callVars,
                   mainVars,
                   pentadVars>>

\* the stream function returns 0
FwStreamReturn ==
    /\ f_pc \in {"read_stream", "write_stream"}
    /\ f_i >= f_total
    /\ f_pc' = "reset"
    /\ UNCHANGED <<f_total, f_i, f_data, f_buf, f_port, f_cmds, f_acks, f_writes,
                   f_aborted, f_pass, f_bad, f_pins, linkVars, faulted, hostStreamVars, cfgVars,
                   callVars, mainVars, pentadVars>>

\* delay(10000) is over
FwStallEnd ==
    /\ f_pc = "stall"
    /\ HostSilence > FwStall
    /\ f_pc' = "reset"
    /\ UNCHANGED <<f_total, f_i, f_data, f_buf, f_port, f_cmds, f_acks, f_writes,
                   f_aborted, f_pass, f_bad, f_pins, linkVars, faulted, hostStreamVars, cfgVars,
                   callVars, mainVars, pentadVars>>

\* outp(0x0) after the stream function, then back to loop()
FwReset ==
    /\ f_pc = "reset"
    /\ \E o \in Outcomes :
         f_port' = Last(fw_outp_lines(CMD_RESET, o))
    /\ f_pc' = "loop"
    /\ UNCHANGED <<f_total, f_i, f_data, f_buf, f_cmds, f_acks, f_writes,
                   f_aborted, f_pass, f_bad, f_pins, linkVars, faulted, hostStreamVars, cfgVars,
                   callVars, mainVars, pentadVars>>

(***************************************************************************)
(* Initial states and specifications.                                      *)
(***************************************************************************)
CallIdle ==
    /\ arg = [fn |-> "none"]
    /\ h_call = <<>>
    /\ f_call = <<>>

PentadIdle ==
    /\ op_data = 0
    /\ pc_outp = "idle"
    /\ high = TRUE
    /\ tries = 0
    /\ inb_log = <<>>
    /\ sleeps = <<>>
    /\ port_log = <<>>
    /\ outp_ret = -1

FwInit ==
    /\ f_pc = "loop"
    /\ f_total = 0
    /\ f_i = 0
    /\ f_data = 0
    /\ f_buf = Zeros(CHUNK)
    /\ f_port = 0
    /\ f_cmds = <<>>
    /\ f_acks = <<>>
    /\ f_writes = <<>>
    /\ f_aborted = FALSE
    /\ f_pass = 0
    /\ f_bad = FALSE
    /\ f_pins = <<FALSE, FALSE>>

HostStreamInit(rlens, wlens) ==
    /\ image \in Images
    /\ h_op \in {"read", "write"}
    /\ h_n \in IF h_op = "read" THEN rlens ELSE wlens
    /\ h_pc = "send_hdr"
    /\ h_i = 0
    /\ h_buf = <<>>
    /\ h_ret = -1
    /\ h_hdr = <<>>
    /\ h_chunks = <<>>
    /\ h_ack = <<>>
    /\ h_fail = "none"

MainIdle ==
    /\ op = "none"
    /\ pc = "idle"
    /\ exit_code = -1
    /\ file_size = 0
    /\ loaded = 0
    /\ loop_i = 0
    /\ c1 = 0
    /\ c2 = 0
    /\ polls = <<>>
    /\ erase_fault = FALSE
    /\ erase_done = FALSE
    /\ last_cmd = "none"
    /\ chip_ready = FALSE
    /\ failed = {}
    /\ write_issued = FALSE
    /\ wb = <<>>
    /\ read_n = 0
    /\ out_file = FALSE
    /\ diff_at = -1
    /\ bad_cmds = 0
    /\ chip = <<>>

StreamIdle ==
    /\ h_op = "none"
    /\ h_n = 0
    /\ h_pc = "idle"
    /\ h_i = 0
    /\ h_buf = <<>>
    /\ h_ret = -1
    /\ h_hdr = <<>>
    /\ h_chunks = <<>>
    /\ h_ack = <<>>
    /\ h_fail = "none"
    /\ to_fw = <<>>
    /\ to_host = <<>>
    /\ FwInit
    /\ faulted = FALSE

\* one call of the host's outp()
InitP ==
    /\ safe_mode \in BOOLEAN
    /\ serial \in BOOLEAN
    /\ InitPentad
    /\ CallIdle
    /\ image = "zero"
    /\ StreamIdle
    /\ MainIdle

NextPentad == OutpFirstWrite \/ SafeModeTry \/ OutpSecondWrite

SpecPentad == InitP /\ [][NextPentad]_vars

\* one call of outp(), of the host or of the firmware
InitOutp ==
    /\ safe_mode \in BOOLEAN
    /\ serial \in BOOLEAN
    /\ op_data \in 0..31 \cup {255}
    /\ pc_outp \in {"write1", "fw_write1"}
    /\ high = TRUE
    /\ tries = 0
    /\ inb_log = <<>>
    /\ sleeps = <<>>
    /\ port_log = <<>>
    /\ outp_ret = -1
    /\ CallIdle
    /\ image = "zero"
    /\ StreamIdle
    /\ MainIdle

NextOutp ==
    \/ OutpFirstWrite
    \/ SafeModeTry
    \/ OutpSecondWrite
    \/ FwOutpFirstWrite
    \/ FwSafeModeTry
    \/ FwOutpSecondWrite

SpecOutp == InitOutp /\ [][NextOutp]_vars

\* a stream call of the host over the link to the firmware; the writes
\* followed are the short ones and those around one chunk
WriteLens == {n \in 0..MaxWriteLen : n <= 2 \/ n >= CHUNK}

InitStream ==
    /\ safe_mode = TRUE
    /\ serial = TRUE
    /\ PentadIdle
    /\ CallIdle
    /\ HostStreamInit(0..MaxReadLen, WriteLens)
    /\ to_fw = <<>>
    /\ to_host = <<>>
    /\ FwInit
    /\ faulted = FALSE
    /\ MainIdle

NextStream ==
    \/ HostSendHeader
    \/ HostReadData
    \/ HostReadTimeout
    \/ HostSendChunk
    \/ HostReadAck
    \/ HostAckTimeout
    \/ FwLoop
    \/ FwReadStreamByte
    \/ FwWriteStreamByte
    \/ FwStreamReturn
    \/ FwStallEnd
    \/ FwReset

SpecStream == InitStream /\ [][NextStream]_vars

\* the header of a stream of any length the chip can hold
InitHdr ==
    /\ safe_mode = TRUE
    /\ serial = TRUE
    /\ PentadIdle
    /\ CallIdle
    /\ HostStreamInit(0..BIOS_SIZE, 0..BIOS_SIZE)
    /\ image = "zero"
    /\ to_fw = <<>>
    /\ to_host = <<>>
    /\ FwInit
    /\ faulted = FALSE
    /\ MainIdle

NextHdr == HostSendHeader \/ FwLoop

SpecHdr == InitHdr /\ [][NextHdr]_vars

(***************************************************************************)
(* viper_loader.c: the chip commands of the host.  O[k] is how the         *)
(* acknowledgment line behaves at the k-th call of outp() made.            *)
(***************************************************************************)
\* the addresses a read pass is followed over
ReadPassLen == IF MaxReadPass < BIOS_SIZE THEN MaxReadPass ELSE BIOS_SIZE

\* how n successive calls go when their faults are f
Calls(f, n) == [k \in 1..n |-> Outcome(f.F, f.m, k)]

\* the handshakes of one more chip command may fail, or of the one after `used`
\* more
MayFail(used) == safe_mode /\ bad_cmds + used < MaxBadCmds

\* 1 if some of the first n calls failed, else 0
Bad(O, n) == IF SomeFailed(O, n) THEN 1 ELSE 0

\* outp(): its return value; with safe mode off the line is not looked at
outp(o) == IF safe_mode /\ o # "ok" THEN 1 ELSE 0

\* of the calls 1..n, tested one after the other, the first that returns
\* non-zero (0: none does)
FirstBad(O, n) ==
    LET bad == {k \in 1..n : outp(O[k]) # 0}
    IN  IF bad = {} THEN 0 ELSE CHOOSE k \in bad : \A j \in bad : k <= j

\* init_read_mode(): the five calls are chained by ||
init_read_mode(O) ==
    LET b == FirstBad(O, 5)
    IN  IF b = 0 THEN [ret |-> 0, n |-> 5] ELSE [ret |-> 1, n |-> b]

RECURSIVE read_bits(_, _, _, _)
\* the loop with the bit read left at bit 4
read_bits_Unshifted(data, val, b, O) ==
    IF b = 8 THEN [ret |-> 0, out |-> data, n |-> 9]
    ELSE
      LET d == U8(BitOr(BitAnd(val[b + 1], MASK_CHIP_DATA), Shr(data, 1)))
      IN  IF outp(O[b + 2]) # 0
            THEN [ret |-> 1, out |-> -1, n |-> b + 2]
            ELSE read_bits(d, val, b + 1, O)

\* the loop of read_byte(): val[i+1] is what _inb() returns at bit i
read_bits(data, val, b, O) ==
    IF b = 8 THEN [ret |-> 0, out |-> data, n |-> 9]
    ELSE
      LET d == U8(BitOr(Shl(BitAnd(val[b + 1], MASK_CHIP_DATA), 3), Shr(data, 1)))
      IN  IF outp(O[b + 2]) # 0
            THEN [ret |-> 1, out |-> -1, n |-> b + 2]
            ELSE read_bits(d, val, b + 1, O)

\* read_byte(): out is what it stores in *out (-1: it stores nothing)
read_byte(val, O) ==
    IF outp(O[1]) # 0
      THEN [ret |-> 1, out |-> -1, n |-> 1]
      ELSE read_bits(0, val, 0, O)

\* what _inb() returns while the chip gives byte b, bit by bit; the
\* acknowledgment line is low
InbSamples(b) == [k \in 1..8 |-> Bit(b, k - 1) * MASK_CHIP_DATA]

\* the arguments of the nine calls of outp() in write_byte()
write_args(data, address) ==
    LET a == BitAnd(address, 131071)
    IN  << CMD_WRITE_BYTE,
           U8(BitOr(BitAnd(Shr(data, 3), 28), Shr(a, 15))),
           U8(Shr(a, 10)),
           U8(Shr(a, 5)),
           U8(a),
           data, data, data, data >>

\* write_byte() without the test for 0xFF of its first lines
write_byte_NoSkip(data, address, O) ==
    LET b == FirstBad(O, 5)
    IN  IF b = 0 THEN [ret |-> 0, n |-> 9] ELSE [ret |-> 1, n |-> b]

\* write_byte(): the return values of the first five calls are tested, those
\* of the last four are not; n is the number of calls made
write_byte(data, address, O) ==
    IF data = 255 THEN [ret |-> 0, n |-> 0]
    ELSE
      LET b == FirstBad(O, 5)
      IN  IF b = 0 THEN [ret |-> 0, n |-> 9] ELSE [ret |-> 1, n |-> b]

\* const uint32_t one_percent = size / 100
one_percent(sz) == sz \div PERCENT

\* the bytes the chip is followed giving at address a
ChipBytes(a) == {0, 255, ImageByte("ramp", a)}

\* the search of compare_bios() for the first difference: the smallest i with
\* expect[i] != actual[i], sz when there is none
first_diff(expect, actual, sz) ==
    LET D == {a \in 0..sz - 1 : expect[a + 1] # actual[a + 1]}
    IN  IF D = {} THEN sz ELSE CHOOSE a \in D : \A b \in D : a <= b

\* the first sz bytes of the file
FileBytes(sz) == [k \in 1..sz |-> ImageByte(image, k - 1)]

Exit(code) ==
    /\ pc' = "exit"
    /\ exit_code' = code

(***************************************************************************)
(* main()                                                                  *)
(***************************************************************************)
\* outp(CMD_RESET), whose result is dropped, then CMD_CHIP_INIT
ChipInit ==
    /\ pc = "chip_init"
    /\ \E f \in Faults(4, MayFail(0)) :
         LET O == Calls(f, 4)
         IN  /\ bad_cmds' = bad_cmds + Bad(O, 4)
             /\ IF \E k \in 2..4 : outp(O[k]) # 0
                  THEN /\ Exit(EXIT_FAILURE)
                       /\ UNCHANGED chip_ready
                  ELSE /\ chip_ready' = TRUE
                       /\ pc' = (IF op = "read" THEN "read_init" ELSE "load")
                       /\ UNCHANGED exit_code
    /\ last_cmd' = "chip_init"
    /\ UNCHANGED <<op, file_size, loaded, loop_i, c1, c2, polls, erase_fault,
                   erase_done, failed, write_issued, wb, read_n, out_file,
                   diff_at, chip, restVars>>

(***************************************************************************)
(* read_bios()                                                             *)
(***************************************************************************)
ReadInit ==
    /\ pc = "read_init"
    /\ \E f \in Faults(5, MayFail(0)) :
         LET O == Calls(f, 5)
             r == init_read_mode(O)
         IN  /\ bad_cmds' = bad_cmds + Bad(O, r.n)
             /\ IF r.ret # 0
                  THEN /\ last_cmd' = "reset"
                       /\ failed' = failed \cup {"read_init"}
                       /\ Exit(1)
                  ELSE /\ last_cmd' = "read_init"
                       /\ pc' = (IF serial THEN "read_stream" ELSE "read_loop")
                       /\ UNCHANGED <<failed, exit_code>>
    /\ loop_i' = 0
    /\ UNCHANGED <<op, file_size, loaded, c1, c2, polls, erase_fault, erase_done,
                   chip_ready, write_issued, wb, read_n, out_file, diff_at,
                   chip, restVars>>

\* serial_read_byte_stream(bios_buffer, BIOS_SIZE): r is what it returns
\* (SpecStream follows the call itself)
ReadStream ==
    /\ pc = "read_stream"
    /\ \E r \in {0, 1} :
         failed' = (IF r # 0 THEN failed \cup {"read_stream"} ELSE failed)
    /\ last_cmd' = "read"
    /\ pc' = "read_finish"
    /\ UNCHANGED <<op, exit_code, file_size, loaded, loop_i, c1, c2, polls,
                   erase_fault, erase_done, chip_ready, write_issued, wb,
                   read_n, out_file, diff_at, bad_cmds,
                   chip, restVars>>

\* one iteration of the loop over the addresses
ReadLoop ==
    /\ pc = "read_loop"
    /\ loop_i < ReadPassLen
    /\ \E f \in Faults(9, MayFail(0)), b \in ChipBytes(loop_i) :
         \E O \in {Calls(f, 9)} : \E r \in {read_byte(InbSamples(b), O)} :
             /\ bad_cmds' = bad_cmds + Bad(O, r.n)
             /\ IF r.ret # 0
                  THEN /\ failed' = failed \cup {"read_byte"}
                       /\ pc' = "read_finish"
                       /\ UNCHANGED <<loop_i, read_n>>
                  ELSE /\ loop_i' = loop_i + 1
                       /\ read_n' = loop_i + 1
                       /\ pc' = (IF loop_i + 1 < ReadPassLen THEN "read_loop"
                                                            ELSE "read_finish")
                       /\ UNCHANGED failed
    /\ last_cmd' = "read"
    /\ UNCHANGED <<op, exit_code, file_size, loaded, c1, c2, polls, erase_fault,
                   erase_done, chip_ready, write_issued, wb, out_file, diff_at,
                   chip, restVars>>

\* outp(CMD_RESET), then the file is written
ReadFinish ==
    /\ pc = "read_finish"
    /\ last_cmd' = "reset"
    /\ \E fopen_ok \in BOOLEAN :
         /\ out_file' = fopen_ok
         /\ Exit(IF fopen_ok THEN 0 ELSE 1)
    /\ UNCHANGED <<op, file_size, loaded, loop_i, c1, c2, polls, erase_fault,
                   erase_done, chip_ready, failed, write_issued, wb, read_n,
                   diff_at, bad_cmds,
                   chip, restVars>>

(***************************************************************************)
(* write_bios() and compare_bios()                                         *)
(***************************************************************************)
\* load_bios_file() and the test of its result
LoadFile ==
    /\ pc = "load"
    /\ \E io_ok \in BOOLEAN :
         LET sz == IF io_ok /\ file_size <= BIOS_SIZE THEN file_size ELSE -1
         IN  /\ loaded' = sz
             /\ IF sz <= 0
                  THEN Exit(1)
                  ELSE /\ pc' = (IF op = "write" THEN "erase" ELSE "cmp_init")
                       /\ UNCHANGED exit_code
    /\ UNCHANGED <<op, file_size, loop_i, c1, c2, polls, erase_fault, erase_done,
                   last_cmd, chip_ready, failed, write_issued, wb, read_n,
                   out_file, diff_at, bad_cmds,
                   chip, restVars>>

\* erase_chip(): the thirteen calls of outp(CMD_ERASE), no result tested
EraseCmds ==
    /\ pc = "erase"
    /\ \E f \in Faults(13, MayFail(0)) :
         /\ erase_fault' = SomeFailed(Calls(f, 13), 13)
         /\ bad_cmds' = bad_cmds + Bad(Calls(f, 13), 13)
    /\ last_cmd' = "erase"
    /\ pc' = "erase_first"
    /\ UNCHANGED <<op, exit_code, file_size, loaded, loop_i, c1, c2, polls,
                   erase_done, chip_ready, failed, write_issued, wb, read_n,
                   out_file, diff_at, chip, restVars>>

\* init_read_mode(); read_byte(&c2): no result tested.  `cur` is c2 before
\* the call, which a failed read_byte() leaves as it is; f says which of the
\* 5 + 9 calls of outp() fail, were they all made.
Poll(cur, f, b) ==
    LET Oi == Calls(f, 5)
        Or == [k \in 1..9 |-> Outcome(f.F, f.m, 5 + k)]
    IN  CHOOSE p \in
          {[c2   |-> IF rr.ret = 0 THEN rr.out ELSE cur,
            read |-> rr.ret = 0,
            bad  |-> IF SomeFailed(Oi, ri.n) \/ SomeFailed(Or, rr.n) THEN 1 ELSE 0] :
              ri \in {init_read_mode(Oi)}, rr \in {read_byte(InbSamples(b), Or)}} : TRUE

\* the poll before the loop: c2 is not initialized, a failed read_byte()
\* leaves in it whatever the stack held
EraseFirst ==
    /\ pc = "erase_first"
    /\ \E f \in Faults(14, MayFail(0)), b \in ChipBytes(0) :
         \E p \in {Poll(-1, f, b)} :
             /\ \E stack \in (IF p.read THEN {p.c2} ELSE ChipBytes(0)) : c2' = stack
             /\ polls' = <<p.read>>
             /\ erase_fault' = (erase_fault \/ p.bad > 0)
             /\ bad_cmds' = bad_cmds + p.bad
    /\ last_cmd' = "read"
    /\ pc' = "erase_poll"
    /\ UNCHANGED <<op, exit_code, file_size, loaded, loop_i, c1, erase_done,
                   chip_ready, failed, write_issued, wb, read_n, out_file,
                   diff_at, chip, restVars>>

\* one iteration of do { c1 = c2; ... } while (c1 != c2); after the loop
\* erase_chip() returns (c1 and c2 are no more), usleep(1000000) and the pass
\* begins
ErasePoll ==
    /\ pc = "erase_poll"
    /\ \E f \in Faults(14, MayFail(0)), b \in ChipBytes(0) :
         \E p \in {Poll(c2, f, b)} :
             /\ polls' = <<Last(polls), p.read>>
             /\ erase_fault' = (erase_fault \/ p.bad > 0)
             /\ bad_cmds' = bad_cmds + p.bad
             /\ IF c2 # p.c2
                  THEN /\ c1' = c2
                       /\ c2' = p.c2
                       /\ UNCHANGED <<pc, erase_done>>
                  ELSE /\ c1' = 0
                       /\ c2' = 0
                       /\ erase_done' = TRUE
                       /\ pc' = (IF serial THEN "write_stream" ELSE "write_loop")
    /\ last_cmd' = "read"
    /\ loop_i' = 0
    /\ UNCHANGED <<op, exit_code, file_size, loaded, chip_ready, failed,
                   write_issued, wb, read_n, out_file, diff_at, chip, restVars>>

\* serial_write_byte_stream(buffer, size): r is what it returns (SpecStream
\* follows the call itself)
WriteStream ==
    /\ pc = "write_stream"
    /\ write_issued' = TRUE
    /\ last_cmd' = "write"
    /\ \E r \in {0, 1} :
         IF r # 0
           THEN /\ failed' = failed \cup {"write_stream"}
                /\ Exit(1)
           ELSE /\ pc' = "write_finish"
                /\ UNCHANGED <<failed, exit_code>>
    /\ UNCHANGED <<op, file_size, loaded, loop_i, c1, c2, polls, erase_fault,
                   erase_done, chip_ready, wb, read_n, out_file, diff_at,
                   bad_cmds,
                   chip, restVars>>

\* the progress display, then the next iteration: i % one_percent with
\* one_percent == 0 is undefined, the process is killed (SIGFPE) or goes on
Progress(sz, more, fin) ==
    \/ /\ loop_i' = loop_i + 1
       /\ pc' = (IF loop_i + 1 < sz THEN more ELSE fin)
    \/ /\ one_percent(sz) = 0
       /\ pc' = "killed"
       /\ UNCHANGED loop_i

\* what a call of write_byte() is remembered by: its arguments, its result,
\* the calls of outp() it made and those of them whose handshake failed
Call(data, address, w, O) ==
    [data |-> data, address |-> address, ret |-> w.ret, n |-> w.n,
     bad |-> {k \in 1..w.n : O[k] # "ok"}]

\* one iteration of the main writing loop, with the second chance
WriteLoop ==
    /\ pc = "write_loop"
    /\ loop_i < loaded
    /\ write_issued' = TRUE
    /\ \E f1 \in Faults(9, MayFail(0)) :
         LET data == ImageByte(image, loop_i)
             O1 == Calls(f1, 9)
             w1 == write_byte(data, loop_i, O1)
         IN  /\ last_cmd' = (IF w1.n > 0 THEN "write" ELSE last_cmd)
             /\ IF w1.ret = 0
                  THEN /\ wb' = <<Call(data, loop_i, w1, O1)>>
                       /\ bad_cmds' = bad_cmds + Bad(O1, w1.n)
                       /\ Progress(loaded, "write_loop", "write_finish")
                       /\ UNCHANGED <<failed, exit_code>>
                  ELSE \E f2 \in Faults(9, MayFail(1)) :
                         LET O2 == Calls(f2, 9)
                             w2 == write_byte(data, loop_i, O2)
                         IN  /\ wb' = <<Call(data, loop_i, w1, O1),
                                        Call(data, loop_i, w2, O2)>>
                             /\ bad_cmds' = bad_cmds + 1 + Bad(O2, w2.n)
                             /\ IF w2.ret # 0
                                  THEN /\ failed' = failed \cup {"write_byte"}
                                       /\ Exit(1)
                                       /\ UNCHANGED loop_i
                                  ELSE /\ Progress(loaded, "write_loop", "write_finish")
                                       /\ UNCHANGED <<failed, exit_code>>
    /\ UNCHANGED <<op, file_size, loaded, c1, c2, polls, erase_fault, erase_done,
                   chip_ready, read_n, out_file, diff_at, chip, restVars>>

\* outp(CMD_RESET); return 0
WriteFinish ==
    /\ pc = "write_finish"
    /\ last_cmd' = "reset"
    /\ Exit(0)
    /\ UNCHANGED <<op, file_size, loaded, loop_i, c1, c2, polls, erase_fault,
                   erase_done, chip_ready, failed, write_issued, wb, read_n,
                   out_file, diff_at, bad_cmds,
                   chip, restVars>>

CmpInit ==
    /\ pc = "cmp_init"
    /\ \E f \in Faults(5, MayFail(0)) :
         LET O == Calls(f, 5)
             r == init_read_mode(O)
         IN  /\ bad_cmds' = bad_cmds + Bad(O, r.n)
             /\ IF r.ret # 0
                  THEN /\ failed' = failed \cup {"read_init"}
                       /\ Exit(1)
                  ELSE /\ pc' = (IF serial THEN "cmp_stream" ELSE "cmp_loop")
                       /\ UNCHANGED <<failed, exit_code>>
    /\ last_cmd' = "read_init"
    /\ loop_i' = 0
    /\ UNCHANGED <<op, file_size, loaded, c1, c2, polls, erase_fault, erase_done,
                   chip_ready, write_issued, wb, read_n, out_file, diff_at,
                   chip, restVars>>

\* serial_read_byte_stream(actual, file_size): r is what it returns, and it
\* stored the chip's bytes in actual[]; then memcmp() and the search for the
\* first difference
CmpStream ==
    /\ pc = "cmp_stream"
    /\ last_cmd' = "read"
    /\ \E r \in {0, 1} :
         IF r # 0
           THEN /\ failed' = failed \cup {"read_stream"}
                /\ Exit(1)
                /\ UNCHANGED diff_at
           ELSE LET d == first_diff(FileBytes(loaded), chip, loaded)
                IN  /\ diff_at' = (IF d < loaded THEN d ELSE -1)
                    /\ Exit(IF d < loaded THEN 1 ELSE 0)
                    /\ UNCHANGED failed
    /\ UNCHANGED <<op, file_size, loaded, loop_i, c1, c2, polls, erase_fault,
                   erase_done, chip_ready, write_issued, wb, read_n, out_file,
                   bad_cmds,
                   chip, restVars>>

\* one iteration of the loop over the addresses
CmpLoop ==
    /\ pc = "cmp_loop"
    /\ loop_i < loaded
    /\ last_cmd' = "read"
    /\ \E f \in Faults(9, MayFail(0)), b \in {chip[loop_i + 1]} :
         \E O \in {Calls(f, 9)} : \E r \in {read_byte(InbSamples(b), O)} :
             /\ bad_cmds' = bad_cmds + Bad(O, r.n)
             /\ IF r.ret # 0
                  THEN /\ failed' = failed \cup {"read_byte"}
                       /\ Exit(1)
                       /\ UNCHANGED <<loop_i, diff_at>>
                  ELSE IF r.out # ImageByte(image, loop_i)
                    THEN /\ diff_at' = loop_i
                         /\ Exit(1)
                         /\ UNCHANGED <<loop_i, failed>>
                    ELSE /\ Progress(loaded, "cmp_loop", "cmp_finish")
                         /\ UNCHANGED <<failed, diff_at, exit_code>>
    /\ UNCHANGED <<op, file_size, loaded, c1, c2, polls, erase_fault, erase_done,
                   chip_ready, write_issued, wb, read_n, out_file, chip,
                   restVars>>

\* "File and memory are identical."; return 0
CmpFinish ==
    /\ pc = "cmp_finish"
    /\ Exit(0)
    /\ UNCHANGED <<op, file_size, loaded, loop_i, c1, c2, polls, erase_fault,
                   erase_done, last_cmd, chip_ready, failed, write_issued, wb,
                   read_n, out_file, diff_at, bad_cmds,
                   chip, restVars>>

\* the files followed: the short ones, a blank one of a hundred bytes and one
\* too long for the chip
Files ==
    {[image |-> p, size |-> n] : p \in Images, n \in 0..MaxFile}
    \cup {[image |-> "erased", size |-> PERCENT], [image |-> "zero", size |-> BIOS_SIZE + 1]}

\* what the chip holds in its first sz bytes while a file of sz bytes is compared
\* with it: every choice of bytes for a short file, an image or a blank chip
\* with one byte programmed for a long one
RECURSIVE ShortChips(_)
ShortChips(n) ==
    IF n = 0 THEN {<<>>}
    ELSE {Append(c, b) : c \in ShortChips(n - 1), b \in ChipBytes(n - 1)}

ChipContents(sz) ==
    IF sz > BIOS_SIZE THEN {<<>>}
    ELSE IF sz <= MaxFile THEN ShortChips(sz)
    ELSE {[k \in 1..sz |-> ImageByte(c, k - 1)] : c \in Images}
         \cup {[k \in 1..sz |-> IF k = sz THEN 0 ELSE 255]}

InitHost ==
    /\ safe_mode \in BOOLEAN
    /\ serial \in BOOLEAN
    /\ PentadIdle
    /\ CallIdle
    /\ StreamIdle
    /\ op \in {"read", "write", "compare"}
    /\ \E f \in (IF op = "read" THEN {[image |-> "zero", size |-> 0]} ELSE Files) :
         /\ image = f.image
         /\ file_size = f.size
         /\ chip \in (IF op = "compare" THEN ChipContents(f.size) ELSE {<<>>})
    /\ pc = "chip_init"
    /\ exit_code = -1
    /\ loaded = 0
    /\ loop_i = 0
    /\ c1 = 0
    /\ c2 = 0
    /\ polls = <<>>
    /\ erase_fault = FALSE
    /\ erase_done = FALSE
    /\ last_cmd = "none"
    /\ chip_ready = FALSE
    /\ failed = {}
    /\ write_issued = FALSE
    /\ wb = <<>>
    /\ read_n = 0
    /\ out_file = FALSE
    /\ diff_at = -1
    /\ bad_cmds = 0

NextHost ==
    \/ ChipInit
    \/ ReadInit
    \/ ReadStream
    \/ ReadLoop
    \/ ReadFinish
    \/ LoadFile
    \/ EraseCmds
    \/ EraseFirst
    \/ ErasePoll
    \/ WriteStream
    \/ WriteLoop
    \/ WriteFinish
    \/ CmpInit
    \/ CmpStream
    \/ CmpLoop
    \/ CmpFinish

SpecHost == InitHost /\ [][NextHost]_vars

(***************************************************************************)
(* The single-byte commands: serial_outb() and serial_inb() of the host    *)
(* and loop() of the firmware.                                             *)
(***************************************************************************)
\* values of a byte the functions are called with
ByteSamples == {0, 1, 31, 32, 90, 165, 224, 254, 255}

\* the byte serial_outb(data) writes
serial_outb(data) == BitAnd(data, 63)

\* the byte serial_inb() writes
SERIAL_INB_CMD == 64

\* values serial_outb() is called with
OutbSamples == ByteSamples \cup {63, 64, 127, 128, 191, 192}

\* serial_outb(data): a write() that fails is only reported
HostOutb ==
    /\ h_op = "io"
    /\ h_pc = "ready"
    /\ Len(to_fw) + Len(f_cmds) <= MaxStray
    /\ \E data \in OutbSamples, ok \in BOOLEAN :
         /\ to_fw' = IF ok THEN Append(to_fw, [v |-> serial_outb(data), kind |-> "outb"])
                     ELSE to_fw
         /\ faulted' = (faulted \/ ~ok)
    /\ UNCHANGED <<to_host, hostStreamVars, fwVars, cfgVars, callVars, mainVars, pentadVars>>

\* serial_inb() writes its command, or returns 1 when write() fails
HostInbSend ==
    /\ h_op = "io"
    /\ h_pc = "ready"
    /\ Len(to_fw) + Len(f_cmds) <= MaxStray
    /\ \E ok \in BOOLEAN :
         IF ok
           THEN /\ to_fw' = Append(to_fw, [v |-> SERIAL_INB_CMD, kind |-> "inb"])
                /\ h_pc' = "inb_wait"
                /\ UNCHANGED <<h_ret, faulted>>
           ELSE /\ h_ret' = SERIAL_INB_ERR
                /\ faulted' = TRUE
                /\ UNCHANGED <<to_fw, h_pc>>
    /\ UNCHANGED <<to_host, image, h_op, h_n, h_i, h_buf, h_hdr, h_chunks, h_ack, h_fail,
                   fwVars, cfgVars, callVars, mainVars, pentadVars>>

\* serial_inb() waits for the answer and reads it
HostInbRead ==
    /\ h_op = "io"
    /\ h_pc = "inb_wait"
    /\ \/ /\ to_host # <<>>
          /\ \E ok \in BOOLEAN :
               IF ok
                 THEN /\ h_ret' = Head(to_host)
                      /\ to_host' = Tail(to_host)
                      /\ UNCHANGED faulted
                 ELSE /\ h_ret' = SERIAL_INB_ERR
                      /\ faulted' = TRUE
                      /\ UNCHANGED to_host
       \/ /\ to_host = <<>>
          /\ FwSilence > DataTimeout
          /\ h_ret' = SERIAL_INB_ERR
          /\ UNCHANGED <<to_host, faulted>>
    /\ h_pc' = "ready"
    /\ UNCHANGED <<to_fw, image, h_op, h_n, h_i, h_buf, h_hdr, h_chunks, h_ack, h_fail,
                   fwVars, cfgVars, callVars, mainVars, pentadVars>>

\* the host sends single-byte commands, or the header of one stream
InitCmd ==
    /\ safe_mode = TRUE
    /\ serial = TRUE
    /\ PentadIdle
    /\ CallIdle
    /\ image = "zero"
    /\ h_op \in {"io", "read", "write"}
    /\ h_n \in (IF h_op = "io" THEN {0} ELSE {0, 1, CHUNK})
    /\ h_pc = (IF h_op = "io" THEN "ready" ELSE "send_hdr")
    /\ h_i = 0
    /\ h_buf = <<>>
    /\ h_ret = -1
    /\ h_hdr = <<>>
    /\ h_chunks = <<>>
    /\ h_ack = <<>>
    /\ h_fail = "none"
    /\ to_fw = <<>>
    /\ to_host = <<>>
    /\ FwInit
    /\ faulted = FALSE
    /\ MainIdle

NextCmd == HostOutb \/ HostInbSend \/ HostInbRead \/ HostSendHeader \/ FwLoop

SpecCmd == InitCmd /\ [][NextCmd]_vars

(***************************************************************************)
(* write_byte() and read_byte() alone: one call of the host's function and *)
(* one call of the firmware's function with the same arguments, the same   *)
(* outcomes of the handshakes and the same levels on the chip's data line. *)
(***************************************************************************)
\* the host's outp(): the values it gives to _outb()
outp_lines(data, o) ==
    LET fd == formatted_data(data)
    IN  IF safe_mode /\ o = "high" THEN <<fd>> ELSE <<fd, BitOr(fd, 16)>>

\* the values the first n of the host's calls with arguments args give to _outb()
RECURSIVE lines(_, _, _, _)
lines(args, O, k, n) ==
    IF k > n THEN <<>>
    ELSE outp_lines(args[k], O[k]) \o lines(args, O, k + 1, n)

\* how many times the first n calls of outp() call safe_mode_check(): once
\* when the first check fails, twice otherwise
checks(O, n) == IF safe_mode THEN n + Cardinality({k \in 1..n : O[k] # "high"}) ELSE 0

fw_checks(O, n) == n + Cardinality({k \in 1..n : O[k] # "high"})

\* the 5 bits outp() sends of its argument
pentad(data) == BitAnd(data, 31)

\* values of `address` the calls are made with
AddressSamples ==
    {0, 1, 31, 32, 1023, 1024, 21845, 32767, 32768, 43690, 65536, 87381,
     131071, 131072, 174762, 1048576, 4194303}

WriteArgs ==
    {[fn |-> "write_byte", data |-> d, address |-> a, O |-> Calls(f, 9)] :
       d \in ByteSamples, a \in AddressSamples, f \in Faults(9, TRUE)}

HostWriteByte ==
    /\ arg.fn = "write_byte"
    /\ h_call = <<>>
    /\ LET w == write_byte(arg.data, arg.address, arg.O)
           a == write_args(arg.data, arg.address)
       IN  h_call' = <<[ret    |-> w.ret,
                        args   |-> SubSeq(a, 1, w.n),
                        lines  |-> lines(a, arg.O, 1, w.n),
                        checks |-> checks(arg.O, w.n)]>>
    /\ UNCHANGED <<arg, f_call, cfgVars, pentadVars, streamVars, mainVars>>

FwWriteByte ==
    /\ arg.fn = "write_byte"
    /\ f_call = <<>>
    /\ LET w == fw_write_byte(arg.address, arg.data, arg.O)
           a == fw_write_args(arg.address, arg.data)
       IN  f_call' = <<[ret    |-> w.ret,
                        args   |-> SubSeq(a, 1, w.n),
                        lines  |-> fw_lines(a, arg.O, 1, w.n),
                        checks |-> fw_checks(arg.O, w.n)]>>
    /\ UNCHANGED <<arg, h_call, cfgVars, pentadVars, streamVars, mainVars>>

InitWriteByte ==
    /\ safe_mode \in BOOLEAN
    /\ serial \in BOOLEAN
    /\ PentadIdle
    /\ image = "zero"
    /\ StreamIdle
    /\ MainIdle
    /\ arg \in WriteArgs
    /\ h_call = <<>>
    /\ f_call = <<>>

NextWriteByte == HostWriteByte \/ FwWriteByte

SpecWriteByte == InitWriteByte /\ [][NextWriteByte]_vars

\* what read_byte() does, in order: [ev "outp", x: the argument] for a call of
\* outp() and [ev "sample", x: i] for the _inb() of bit i
RECURSIVE read_events(_, _)
read_events(b, O) ==
    IF b = 8 THEN <<>>
    ELSE <<[ev |-> "sample", x |-> b], [ev |-> "outp", x |-> b]>>
         \o (IF outp(O[b + 2]) # 0 THEN <<>> ELSE read_events(b + 1, O))

read_byte_events(O) ==
    <<[ev |-> "outp", x |-> CMD_READ]>>
    \o (IF outp(O[1]) # 0 THEN <<>> ELSE read_events(0, O))

\* the same for one byte of the firmware's read_byte_stream(), the sample
\* being digitalRead(PIN_SEL)
RECURSIVE fw_read_events(_, _)
fw_read_events(b, O) ==
    IF b = 8 THEN <<>>
    ELSE <<[ev |-> "sample", x |-> b], [ev |-> "outp", x |-> b]>>
         \o (IF fw_outp(O[b + 2]) # 0 THEN <<>> ELSE fw_read_events(b + 1, O))

fw_read_byte_events(O) ==
    <<[ev |-> "outp", x |-> CMD_READ]>>
    \o (IF fw_outp(O[1]) # 0 THEN <<>> ELSE fw_read_events(0, O))

\* what the firmware's `data` holds when a byte is read: 0 at the first byte,
\* the byte read before at the others
PrevSamples == {0, 255}

\* the bits of the status register other than SELECT, as _inb() returns them
StatusSamples == {0, MASK_CHIP_ERR}

ReadArgs ==
    {[fn |-> "read_byte", bits |-> SampleBits(b), prev |-> p, status |-> st,
      O |-> Calls(f, 9)] :
       b \in 0..255, p \in PrevSamples, st \in StatusSamples, f \in Faults(9, TRUE)}

HostReadByte ==
    /\ arg.fn = "read_byte"
    /\ h_call = <<>>
    /\ LET val == [k \in 1..8 |-> arg.bits[k] * MASK_CHIP_DATA + arg.status]
           r   == read_byte(val, arg.O)
       IN  h_call' = <<[ret |-> r.ret, out |-> r.out, events |-> read_byte_events(arg.O)]>>
    /\ UNCHANGED <<arg, f_call, cfgVars, pentadVars, streamVars, mainVars>>

\* out is the byte given to Serial.write() (-1: none)
FwReadByte ==
    /\ arg.fn = "read_byte"
    /\ f_call = <<>>
    /\ LET r == fw_read_byte(arg.prev, arg.bits, arg.O)
       IN  f_call' = <<[ret |-> r.ret, out |-> IF r.ret = 0 THEN r.data ELSE -1,
                        events |-> fw_read_byte_events(arg.O)]>>
    /\ UNCHANGED <<arg, h_call, cfgVars, pentadVars, streamVars, mainVars>>

InitReadByte ==
    /\ safe_mode \in BOOLEAN
    /\ serial = FALSE
    /\ PentadIdle
    /\ image = "zero"
    /\ StreamIdle
    /\ MainIdle
    /\ arg \in ReadArgs
    /\ h_call = <<>>
    /\ f_call = <<>>

NextReadByte == HostReadByte \/ FwReadByte

SpecReadByte == InitReadByte /\ [][NextReadByte]_vars

(***************************************************************************)
(* Safe mode: the handshake of one pentad.                                 *)
(***************************************************************************)
\* the sample v of the status register shows the acknowledgment line (bit 3)
\* at the level waited for
Shows(v, hi) == IF hi THEN (v \div 8) % 2 = 1 ELSE (v \div 8) % 2 = 0

BackoffUs == <<125, 250, 500, 1000>>

NoneShows(log, hi) == \A k \in 1..Len(log) : ~Shows(log[k], hi)

C5_HeaderRoundTrip ==
    /\ (h_hdr # <<>>) =>
          /\ Len(h_hdr) = 3
          /\ \A k \in 1..3 : h_hdr[k] \in 0..255
          /\ h_hdr[1] \div 64 = (IF h_op = "read" THEN 2 ELSE 3)
    /\ (f_pass = 1) =>
          /\ f_total = h_n
          /\ f_pc = (IF h_op = "read" THEN "read_stream" ELSE "write_stream")
          /\ to_fw = <<>>

\* the longest stream, a write, has reached write_byte_stream()
C5_Witness ==
    /\ h_op = "write"
    /\ h_n = BIOS_SIZE
    /\ f_pass = 1
    /\ f_pc = "write_stream"
    /\ f_total = BIOS_SIZE

(***************************************************************************)
(* The stream write.                                                       *)
(***************************************************************************)
NumChunks(n) == (n + CHUNK - 1) \div CHUNK

\* the data bytes chunk j of n bytes carries
ChunkData(n, j) == Min(CHUNK, n - CHUNK * (j - 1))

\* chunk j as it must go over the link: the data, zero-padded to 60 bytes
ChunkBytes(n, j) ==
    [k \in 1..CHUNK |-> IF k <= ChunkData(n, j)
                          THEN ImageByte(image, CHUNK * (j - 1) + k - 1) ELSE 0]

\* a stream write of n >= 1 bytes has ended with no I/O call and no pentad failing
CleanWriteDone == h_op = "write" /\ h_n >= 1 /\ h_pc = "done" /\ ~faulted

ChunkTrips ==
    /\ Len(h_chunks) = NumChunks(h_n)
    /\ Len(h_ack) = NumChunks(h_n)
    /\ Len(f_acks) = NumChunks(h_n)
    /\ \A j \in 1..Len(h_chunks) : h_chunks[j].bytes = ChunkBytes(h_n, j)

\* C3 as claimed: ceil(n/60) chunk round trips, a full chunk acknowledged
\* with 60 and a final chunk of k < 60 data bytes, zero-padded to 60,
\* acknowledged with k.
C3_AckIsDataCount ==
    CleanWriteDone =>
      /\ ChunkTrips
      /\ \A j \in 1..Len(f_acks) : f_acks[j] = ChunkData(h_n, j)

\* C3 as amended: ceil(n/60) chunk round trips, every chunk zero-padded to 60
\* bytes and acknowledged with 60, the bytes received, the final chunk too;
\* the host returns 0.
C3_AckIsSixty ==
    CleanWriteDone =>
      /\ ChunkTrips
      /\ \A j \in 1..Len(f_acks) : f_acks[j] = 60
      /\ \A j \in 1..Len(h_ack) : h_ack[j] = [r |-> 1, ack |-> 60]
      /\ h_ret = 0

\* 61 bytes have gone over in two chunks
C3_Witness ==
    /\ CleanWriteDone
    /\ h_n = 61
    /\ h_ret = 0
    /\ Len(h_chunks) = 2
    /\ f_acks = <<60, 60>>

GoodAck(a) == a.r = 1 /\ a.ack = 60

\* C4: chunks go out in order, each once, and a chunk after the first only
\* after the acknowledgment 60 of the one before; an acknowledgment wait that
\* times out, reads no byte or reads another byte than 60 ends the function
\* with 1 there and then.
C4_NoRetryNoLaterChunk ==
    (h_op = "write") =>
      /\ \A j \in 1..Len(h_chunks) : h_chunks[j].off = CHUNK * (j - 1)
      /\ \A j \in 1..Len(h_ack) - 1 : GoodAck(h_ack[j])
      /\ Len(h_chunks) = Len(h_ack) + (IF h_pc = "wait_ack" \/ h_fail = "timeout" THEN 1 ELSE 0)
      /\ (h_ack # <<>> /\ ~GoodAck(Last(h_ack))) =>
             h_pc = "done" /\ h_ret = 1 /\ h_fail = "ack"
      /\ (h_fail = "timeout") => h_pc = "done" /\ h_ret = 1
      /\ (h_pc = "done" /\ h_ret = 0) =>
             Len(h_chunks) = NumChunks(h_n) /\ (h_ack # <<>> => GoodAck(Last(h_ack)))

\* the read of the first acknowledgment of two failed
C4_Witness ==
    /\ h_op = "write"
    /\ h_n = 61
    /\ h_pc = "done"
    /\ h_ret = 1
    /\ Len(h_chunks) = 1
    /\ Len(h_ack) = 1
    /\ ~GoodAck(h_ack[1])

\* C2: when the firmware has aborted the pass the host asked for, the host's
\* stream function returns 1.
C2_AbortedPassFails ==
    (f_aborted /\ f_pass = 1 /\ h_pc = "done") => h_ret = 1

(***************************************************************************)
(* main() and the passes.                                                  *)
(***************************************************************************)
\* C1: main() returns 0 only if every step of the pass returned 0: the
\* read-mode initialization, every read_byte(), the stream call, and every
\* write_byte() after its second chance.
C1_ExitZeroOnlyIfAllSteps ==
    (pc = "exit" /\ exit_code = 0) => failed = {}

\* C6: erase_chip() returns only after two successive calls of read_byte()
\* that both returned 0.
C6_EraseDoneAfterTwoGoodReads ==
    erase_done => (Len(polls) = 2 /\ polls[1] /\ polls[2])

\* C7: once a pentad emitted by erase_chip() has failed its handshake, neither
\* write_byte() nor serial_write_byte_stream() is called, and main() does not
\* return 0.
C7_EraseFaultAborts ==
    erase_fault => (~write_issued /\ (pc = "exit" => exit_code # 0))

\* C8: a call of write_byte() in which the handshake of any pentad failed, the
\* four trailing data pentads included, returns 1.
C8_WriteByteFailsOnAnyFault ==
    \A k \in 1..Len(wb) : (wb[k].bad # {}) => wb[k].ret = 1

\* C10: when main() returns after the chip answered CMD_CHIP_INIT and the pass
\* has emitted chip commands, the last pentad emitted is CMD_RESET.
C10_ResetBeforeExit ==
    (pc = "exit" /\ chip_ready /\ last_cmd # "chip_init") => last_cmd = "reset"

Silent(c) == c.ret = 0 /\ c.args = <<>> /\ c.lines = <<>> /\ c.checks = 0

\* C12: write_byte() called with data 0xFF, on the host and in the firmware
\* and at every address, puts nothing on the output lines, samples no input
\* and returns 0: no pentad is emitted for the byte, CMD_WRITE_BYTE included.
C12_ErasedByteSkipped ==
    (arg.fn = "write_byte" /\ arg.data = 255) =>
      /\ \A k \in 1..Len(h_call) : Silent(h_call[k])
      /\ \A k \in 1..Len(f_call) : Silent(f_call[k])

C12_Witness ==
    /\ arg.fn = "write_byte" /\ arg.data = 255 /\ arg.address = 131071
    /\ arg.O[1] = "high"
    /\ safe_mode
    /\ Len(h_call) = 1 /\ Len(f_call) = 1

\* the 17 address bits the second to fifth pentad of a call carry: the low 2
\* bits of the second, then three groups of 5, most significant first
AddressSent(c) ==
    (pentad(c.args[2]) % 4) * 32768 + pentad(c.args[3]) * 1024
      + pentad(c.args[4]) * 32 + pentad(c.args[5])

\* the 3 data bits the second pentad carries, above its 2 address bits
DataBitsSent(c) == pentad(c.args[2]) \div 4

\* C13: whenever write_byte(), of the host or of the firmware, has emitted its
\* first five pentads for a byte other than 0xFF, the address bits they carry
\* are address & 0x1FFFF and the data bits of the second pentad are bits 7..5
\* of the byte, whatever the address.
C13_AddressRoundTrip ==
    \A c \in {h_call[k] : k \in 1..Len(h_call)} \cup {f_call[k] : k \in 1..Len(f_call)} :
      Len(c.args) >= 5 =>
        /\ AddressSent(c) = BitAnd(arg.address, 131071)
        /\ DataBitsSent(c) = Shr(arg.data, 5)

(***************************************************************************)
(* compare_bios().                                                         *)
(***************************************************************************)
\* C14: while a file is compared with the chip, a difference is reported only
\* at the smallest offset where the chip's byte differs from the file's, with a
\* non-zero exit code and no byte of the chip read after it on the parallel
\* port; main() returns 0 only when every byte up to the file's length
\* matches; and a comparison that ended with no read failing has reported the
\* first difference when there is one.
C14_FirstDifferenceOrIdentical ==
    (op = "compare" /\ loaded > 0) =>
      LET d == first_diff(FileBytes(loaded), chip, loaded)
      IN  /\ diff_at >= 0 => (diff_at = d /\ d < loaded /\ pc = "exit" /\ exit_code # 0)
          /\ ~serial => loop_i <= d
          /\ (pc = "exit" /\ exit_code = 0) => d = loaded
          /\ (pc \in {"exit", "killed"} /\ last_cmd = "read" /\ failed = {} /\ d < loaded)
               => diff_at = d

(***************************************************************************)
(* The firmware's stream functions: a pentad that fails.                   *)
(***************************************************************************)
\* the firmware sends nothing and reads no command in this step
FwQuiet == Len(to_host') <= Len(to_host) /\ f_acks' = f_acks /\ f_cmds' = f_cmds

\* C15: the step of a stream function in which a pentad fails its handshake
\* ends the pass in the stall; while it stalls and until the reset pentad is
\* out the firmware sends nothing and reads no command; the stall ends only
\* after 10 s, and loop() is back only with the reset pentad on the lines.
C15_PentadFaultAbortsPass ==
    [][/\ (~f_bad /\ f_bad') => f_pc' = "stall"
       /\ f_pc = "stall" =>
            /\ FwQuiet
            /\ f_pc' \in {"stall", "reset"}
            /\ f_pc' = "reset" => HostSilence > FwStall
       /\ f_pc = "reset" =>
            /\ FwQuiet
            /\ f_pc' \in {"reset", "loop"}
            /\ f_pc' = "loop" => f_port' \in {formatted_data(CMD_RESET),
                                              BitOr(formatted_data(CMD_RESET), 16)}
      ]_vars

(***************************************************************************)
(* serial_read_byte_stream().                                              *)
(***************************************************************************)
\* C16: serial_read_byte_stream(bios_buffer, max) stores what it reads at the
\* indices from i on, in the order of arrival, and never at max or beyond; it
\* returns 0 only with bios_buffer[0..max-1] all stored; and it returns 1 when
\* the wait for data times out and when read() fails.
C16_ReadStreamStoresAll ==
    [][h_op = "read" =>
         /\ \A k \in DOMAIN h_buf' : 0 <= k /\ k < h_n
         /\ (h_pc = "read_wait" /\ h_i' > h_i) =>
              \A k \in h_i .. h_i' - 1 : h_buf'[k] = to_host[k - h_i + 1]
         /\ (h_pc' = "done" /\ h_ret' = 0) => DOMAIN h_buf' = 0 .. h_n - 1
         /\ (h_pc = "read_wait" /\ h_pc' = "done" /\ to_host = <<>>) => h_ret' = 1
         /\ (h_pc = "read_wait" /\ h_i' = h_i - 1) => (h_pc' = "done" /\ h_ret' = 1)
      ]_vars

(***************************************************************************)
(* The dispatch of a command byte.                                         *)
(***************************************************************************)
\* C17: loop() dispatches a byte on its two top bits alone: with 00 the low
\* 6 bits are driven on the output lines and nothing is sent back; with 01
\* one status byte is sent back, bit 4 the level of SELECT and bit 3 that of
\* ERROR; with 10 read_byte_stream() runs and with 11 write_byte_stream().
\* Every byte serial_outb() writes has the top bits 00 and every byte
\* serial_inb() writes has the top bits 01.
C17_DispatchOnTopBits ==
    [][/\ f_cmds' # f_cmds =>
            LET d == Head(to_fw).v
            IN  CASE d \div 64 = 0 ->
                       f_port' = d % 64 /\ to_host' = to_host /\ f_pc' = "loop"
                  [] d \div 64 = 1 ->
                       /\ to_host' = Append(to_host, (IF f_pins'[1] THEN 16 ELSE 0)
                                                     + (IF f_pins'[2] THEN 8 ELSE 0))
                       /\ f_port' = f_port
                       /\ f_pc' = "loop"
                  [] d \div 64 = 2 -> f_pc' = "read_stream" /\ to_host' = to_host
                  [] d \div 64 = 3 -> f_pc' = "write_stream" /\ to_host' = to_host
       /\ \A k \in 1..Len(to_fw') :
            /\ to_fw'[k].kind = "outb" => to_fw'[k].v \div 64 = 0
            /\ to_fw'[k].kind = "inb" => to_fw'[k].v \div 64 = 1
      ]_vars

\* a direct output, a status request and a status byte with both levels high
\* have been dispatched and answered
C17_Witness ==
    /\ Len(f_cmds) = 3
    /\ f_cmds[1].kind = "outb" /\ f_cmds[1].byte = 63
    /\ f_cmds[2].kind = "inb" /\ f_cmds[2].byte = 64
    /\ f_cmds[3].kind = "outb"
    /\ f_pins = <<TRUE, TRUE>>
    /\ h_ret = 24
    /\ f_port = 37

(***************************************************************************)
(* outp() of the host and of the firmware.                                 *)
(***************************************************************************)
\* the call is the host's
HostCall == pc_outp \in {"write1", "check", "write2", "ret"}

\* C18: with safe mode off the host's outp() never reads the acknowledgment
\* line and never sleeps, gives exactly two values to _outb() and returns 0;
\* the firmware's outp() reads the line after each value it gives to outb(),
\* whatever the host's safe mode: it makes the second write only after HIGH
\* showed, returns 0 only after LOW showed then, and returns 1 only after
\* MAX_TRIES samples that did not show the level.
C18_HostSkipsFirmwarePolls ==
    /\ (HostCall /\ ~safe_mode) =>
         /\ inb_log = <<>> /\ sleeps = <<>>
         /\ pc_outp # "check"
         /\ pc_outp = "ret" => (Len(port_log) = 2 /\ outp_ret = 0)
    /\ pc_outp = "fw_write2" => (high /\ inb_log # <<>> /\ inb_log[Len(inb_log)] = 1)
    /\ pc_outp = "fw_check" => Len(port_log) = (IF high THEN 1 ELSE 2)
    /\ pc_outp = "fw_ret" =>
         IF outp_ret = 0
           THEN ~high /\ inb_log # <<>> /\ inb_log[Len(inb_log)] = 0
           ELSE /\ outp_ret = 1
                /\ Len(inb_log) = MAX_TRIES
                /\ \A k \in 1..MAX_TRIES : inb_log[k] = (IF high THEN 0 ELSE 1)

\* the host's outp(0xff) has returned with safe mode off
C18_Witness ==
    /\ ~safe_mode
    /\ pc_outp = "ret"
    /\ op_data = 255
    /\ port_log = <<47, 63>>
    /\ outp_ret = 0

\* with safe mode off on the host, the firmware's outp() has returned 0 after
\* both polls, the second of them at its second sample
C18_FirmwarePolled ==
    /\ ~safe_mode
    /\ pc_outp = "fw_ret"
    /\ outp_ret = 0
    /\ Len(port_log) = 2
    /\ Len(inb_log) = 2

\* the two values of a pentad on the output lines: the four low bits of the
\* payload and bit 5 for its bit 4, with bit 4 (the strobe) low, then high
FirstValue == (op_data % 16) + 32 * ((op_data \div 16) % 2)

SecondValue == FirstValue + 16

\* C19: an outp() that returns 0, of the host or of the firmware, has put
\* exactly two values on the output lines: the payload with the strobe low,
\* then the same with the strobe high; no call puts more than these two, in
\* this order; and a call whose wait for HIGH failed has put only the first.
C19_TwoWritesOneStrobe ==
    /\ Len(port_log) <= 2
    /\ Len(port_log) >= 1 => port_log[1] = FirstValue
    /\ Len(port_log) = 2 => port_log[2] = SecondValue
    /\ (pc_outp \in {"ret", "fw_ret"} /\ outp_ret = 0) => Len(port_log) = 2
    /\ (pc_outp \in {"ret", "fw_ret"} /\ outp_ret = 1 /\ high) => Len(port_log) = 1
    /\ pc_outp \in {"write2", "fw_write2"} => Len(port_log) = 1

\* a pentad with bit 4 set has been emitted and acknowledged in safe mode
C19_Witness ==
    /\ safe_mode
    /\ pc_outp = "ret"
    /\ outp_ret = 0
    /\ op_data = 21
    /\ port_log = <<37, 53>>

(***************************************************************************)
(* read_byte() alone.                                                      *)
(***************************************************************************)
\* the byte whose bit i is the level sampled at bit i
ByteOfBits(bits) ==
    bits[1] + 2 * bits[2] + 4 * bits[3] + 8 * bits[4]
      + 16 * bits[5] + 32 * bits[6] + 64 * bits[7] + 128 * bits[8]

\* the read pentad, then for each bit its sample followed by its pentad
ReadOrder ==
    [k \in 1..17 |->
       IF k = 1 THEN [ev |-> "outp", x |-> 13]
       ELSE IF k % 2 = 0 THEN [ev |-> "sample", x |-> (k \div 2) - 1]
       ELSE [ev |-> "outp", x |-> (k - 3) \div 2]]

\* C20: a read of one byte, by the host's read_byte() or by the firmware's
\* read_byte_stream(), emits the read pentad, then for i = 0..7 samples the
\* data line and emits pentad i, stopping only at a pentad that fails; when it
\* succeeds, the byte it yields has bit i equal to the i-th sample, whatever
\* the byte read before and whatever the other status bits, so that both
\* yield the same byte.
C20_ReadByteLsbFirst ==
    arg.fn = "read_byte" =>
      \A c \in {h_call[k] : k \in 1..Len(h_call)} \cup {f_call[k] : k \in 1..Len(f_call)} :
        /\ Len(c.events) <= 17
        /\ c.events = SubSeq(ReadOrder, 1, Len(c.events))
        /\ c.ret = 0 => (Len(c.events) = 17 /\ c.out = ByteOfBits(arg.bits))
        /\ c.ret # 0 => c.events[Len(c.events)].ev = "outp"

\* both have read 0xA5 while the firmware's data held 0xFF and ERROR was high
C20_Witness ==
    /\ arg.fn = "read_byte"
    /\ arg.bits = <<1, 0, 1, 0, 0, 1, 0, 1>>
    /\ arg.prev = 255
    /\ arg.status = 8
    /\ Len(h_call) = 1 /\ h_call[1].ret = 0 /\ h_call[1].out = 165
    /\ Len(f_call) = 1 /\ f_call[1].ret = 0 /\ f_call[1].out = 165

(***************************************************************************)
(* write_byte_stream(): what reaches write_byte().                         *)
(***************************************************************************)
\* the chunks the host wrote, all of CHUNK bytes, have all been taken from the
\* link, each by one refill that took CHUNK bytes
AllChunksTaken ==
    /\ to_fw = <<>>
    /\ Len(h_chunks) = NumChunks(h_n)
    /\ \A j \in 1..Len(h_chunks) : Len(h_chunks[j].bytes) = CHUNK
    /\ Len(f_acks) = NumChunks(h_n)
    /\ \A j \in 1..Len(f_acks) : f_acks[j] = CHUNK

\* C21: in the pass of a write stream of n bytes, the k-th call of
\* write_byte() is made with address k - 1 and the host's data[k - 1], and no
\* call is made beyond n - 1, so that no padding byte reaches write_byte();
\* when no pentad and no I/O call has failed and write_byte_stream() has
\* returned, write_byte() has been called n times and the firmware has taken
\* from the link the 60 * ceil(n / 60) bytes of the chunks the host wrote.
C21_EachByteOnceInOrder ==
    (h_op = "write" /\ f_pass <= 1) =>
      /\ Len(f_writes) <= h_n
      /\ \A k \in 1..Len(f_writes) : f_writes[k] = <<k - 1, ImageByte(image, k - 1)>>
      /\ (~faulted /\ f_pass = 1 /\ f_pc \in {"reset", "loop"}) =>
             /\ Len(f_writes) = h_n
             /\ AllChunksTaken

\* 61 bytes of the ramp have gone through write_byte(), the last of them
\* from a chunk with 59 bytes of padding
C21_Witness ==
    /\ h_op = "write"
    /\ h_n = 61
    /\ image = "ramp"
    /\ ~faulted
    /\ f_pass = 1
    /\ f_pc = "loop"
    /\ Len(f_writes) = 61
    /\ f_writes[61] = <<60, ImageByte("ramp", 60)>>
    /\ to_fw = <<>>

(***************************************************************************)
(* The flow control of a stream write.                                     *)
(***************************************************************************)
\* the bytes at the head of the link are those of the host's chunk j
ChunkAtHead(j) ==
    /\ j \in 1..Len(h_chunks)
    /\ Len(to_fw) >= CHUNK
    /\ Len(h_chunks[j].bytes) = CHUNK
    /\ \A k \in 1..CHUNK :
         to_fw[k].v = h_chunks[j].bytes[k] /\ to_fw[k].kind \in {"data", "pad"}

\* C22: during a stream write the host writes a chunk only when it has read
\* the acknowledgment 60 of every chunk written before; the bytes written by
\* the host and not yet read by the firmware are never more than the 3 of the
\* header and the 60 of one chunk; and the firmware sends 60 as its j-th
\* acknowledgment only in the step in which it has taken the 60 bytes of the
\* host's chunk j from the link.
C22_OneChunkInFlight ==
    [][h_op = "write" =>
         /\ Len(to_fw') <= 3 + CHUNK
         /\ h_chunks' # h_chunks =>
              /\ Len(h_ack) = Len(h_chunks)
              /\ \A j \in 1..Len(h_ack) : GoodAck(h_ack[j])
         /\ (f_acks' # f_acks /\ Last(f_acks') = CHUNK) =>
              /\ ChunkAtHead(Len(f_acks'))
              /\ to_fw' = SubSeq(to_fw, CHUNK + 1, Len(to_fw))
      ]_vars

\* the second chunk of two is on the link, written after the acknowledgment
\* of the first was read
C22_Witness ==
    /\ h_op = "write"
    /\ h_n = 61
    /\ Len(h_chunks) = 2
    /\ Len(h_ack) = 1
    /\ GoodAck(h_ack[1])
    /\ f_acks = <<60>>
    /\ Len(to_fw) = CHUNK

(***************************************************************************)
(* write_byte() of the host and of the firmware, side by side.             *)
(***************************************************************************)
\* the nine pentads of a write, as 5-bit payloads: the write command, the 3
\* high bits of the data over the 2 high bits of the address, the address in
\* three groups of 5 bits, and the data four times
WritePentads(data, address) ==
    << CMD_WRITE_BYTE,
       (data \div 32) * 4 + address \div 32768,
       (address \div 1024) % 32,
       (address \div 32) % 32,
       address % 32,
       data % 32, data % 32, data % 32, data % 32 >>

\* the calls of outp() made have the payloads of the first pentads of a write
SendsWrite(c) ==
    /\ Len(c.args) \in 1..9
    /\ \A k \in 1..Len(c.args) :
         pentad(c.args[k]) = WritePentads(arg.data, arg.address)[k]

\* C23: for a byte other than 0xFF, an address in 0..0x1FFFF and every
\* outcome of the nine handshakes, write_byte() of the host in safe mode and
\* write_byte() of the firmware give the same values to the output lines, in
\* the same order, sample the acknowledgment line as often and return the
\* same result; the pentads they emit are the first of the nine of a write,
\* up to the first of the first five whose handshake fails.
C23_SameWriteOnBothSides ==
    (/\ arg.fn = "write_byte"
     /\ safe_mode
     /\ arg.data # 255
     /\ arg.address <= 131071
     /\ h_call # <<>>
     /\ f_call # <<>>)
    => /\ h_call[1].lines = f_call[1].lines
       /\ h_call[1].ret = f_call[1].ret
       /\ h_call[1].checks = f_call[1].checks
       /\ SendsWrite(h_call[1])
       /\ SendsWrite(f_call[1])
       /\ Len(h_call[1].args) = Len(f_call[1].args)

\* both have written 0xA5 at the last address with the third handshake
\* failing in its wait for LOW, and both returned 1 after three pentads
C23_Witness ==
    /\ arg.fn = "write_byte"
    /\ safe_mode
    /\ arg.data = 165
    /\ arg.address = 131071
    /\ arg.O[3] = "low"
    /\ Len(h_call) = 1 /\ Len(f_call) = 1
    /\ h_call[1].ret = 1 /\ f_call[1].ret = 1
    /\ Len(h_call[1].lines) = 6
    /\ h_call[1].lines = f_call[1].lines

(***************************************************************************)
(* What loop() takes for a command.                                        *)
(***************************************************************************)
\* C24: every byte loop() has dispatched was written by the host as a
\* command: the first byte of a stream header or the byte of serial_outb()
\* or serial_inb(); never a size byte of a header, a data byte or a padding
\* byte of a chunk.
C24_OnlyCommandsDispatched ==
    \A k \in 1..Len(f_cmds) : f_cmds[k].kind \in {"cmd", "outb", "inb"}

(***************************************************************************)
(* safe_mode_check() over the serial link.                                 *)
(***************************************************************************)
\* the sample is a status byte the bridge sent, not the error return of
\* serial_inb()
Received(v) == v \in InbValues

\* C25: over the serial link and in safe mode, the wait for HIGH ends well
\* only on a status byte received that shows the acknowledgment line high,
\* and the wait for LOW only on a status byte received that shows it low: the
\* error return of serial_inb() ends neither wait well.
C25_FailedReadNeverAcknowledges ==
    (serial /\ safe_mode) =>
      /\ pc_outp = "write2" =>
           /\ inb_log # <<>>
           /\ Received(Last(inb_log))
           /\ Shows(Last(inb_log), TRUE)
      /\ (pc_outp = "ret" /\ outp_ret = 0) =>
           /\ inb_log # <<>>
           /\ Received(Last(inb_log))
           /\ Shows(Last(inb_log), FALSE)

====
